---- MODULE Spec2Model ----
(***************************************************************************)
(* Brand-Identity-Inference: the logo waterfall (LogoExtractor), the page  *)
(* signals it consumes (WebsiteFetcher.EXTRACTION_SCRIPT), and the merge   *)
(* of programmatic results with the external hint (routes.py,              *)
(* llm_verify.py).                                                         *)
(*                                                                         *)
(* Numbers.  Scores are kept in thousandths of a point and confidences in  *)
(* units of 1/100000, so that confidence = score / 100 is the same integer *)
(* (score 57.4 -> 57400, confidence 0.574 -> 57400).  Every constant of    *)
(* the code is scaled the same way where it is used.                       *)
(*                                                                         *)
(* Strings.  A drawing-command text (the d attribute of a path) is a       *)
(* sequence of runs [c, n]: character c repeated n times.  Slicing and     *)
(* concatenation are computed on runs, with the code's own limits.         *)
(***************************************************************************)
EXTENDS Integers, Sequences, FiniteSets, TLC

VARIABLES
    page,        \* the rendered page the fetcher saw
    extractor,   \* LogoExtractor fields: soup, brand_anchors, all_svgs, header_images, screenshot, svg_fingerprint_usage
    logo,        \* extract(): the local variable logo
    evaluated,   \* extract(): the tiers whose extraction method has been called
    result,      \* extract(): the returned descriptor
    pc,          \* position in extract()
    request,     \* extract_design_system: what the fetch returned besides the page (css, google fonts link, html size)
    step,        \* extract_design_system: position in the handler
    color_extractor,  \* ColorExtractor fields: context_colors, all_colors
    prog_colors, \* ColorExtractor(css).extract()
    prog_typo,   \* TypographyExtractor(css, html).extract()
    prog_logo,   \* LogoExtractor(...).extract()
    skip_llm,    \* the local variable skip_llm
    hint_requests,  \* number of calls of extract_with_llm made by the handler
    logo_reply, \* extract_with_llm: the parsed answer of the logo call (None before the call)
    llm_result,  \* the hint handed to the merge functions
    final_colors, final_typo, final_logo,  \* the merged values
    status,      \* "running", "ok" (response returned) or "error" (HTTPException 500)
    credential,  \* extract_with_llm: whether OPENROUTER_API_KEY is set (None before the call)
    colors_reply,  \* extract_with_llm: colors_found, the parsed answers of the colour calls
    typo_reply,  \* extract_with_llm: the parsed answer of the typography call
    hex_input,   \* normalize_hex: the argument
    normalized,  \* normalize_hex: the returned text (None before the call)
    css_contents,  \* ColorExtractor: the list of CSS text blocks handed to the constructor
    color_result \* ColorExtractor.extract: the returned result (None before the call)

logoVars == <<page, extractor, logo, evaluated, result, pc>>
pipeVars == <<request, step, color_extractor, prog_colors, prog_typo, prog_logo, skip_llm,
              hint_requests, logo_reply, llm_result, final_colors, final_typo, final_logo,
              status>>
replyVars == <<credential, colors_reply, typo_reply>>
colorVars == <<hex_input, normalized, css_contents, color_result>>
vars == <<logoVars, pipeVars, replyVars, colorVars>>

\* Texts that are searched for a word (URLs, src attributes) are sequences of tokens;
\* str.lower() maps every token, and "x in text" looks for the token.
LowerToken(t) ==
    CASE t = "FAVICON" -> "favicon"
      [] t = ".SVG" -> ".svg"
      [] OTHER -> t
StrLower(text) == [i \in 1..Len(text) |-> LowerToken(text[i])]
StrContains(text, word) == \E i \in 1..Len(text) : text[i] = word

\* Python None, and the values a JSON document can put in a field
None == [none |-> TRUE]
Str(text) == [str |-> text]
Num(n) == [num |-> n]
IsStr(x) == DOMAIN x = {"str"}
IsNum(x) == DOMAIN x = {"num"}
\* bool(x)
Truthy(x) ==
    CASE x = None -> FALSE
      [] IsStr(x) -> x.str # <<>>
      [] IsNum(x) -> x.num # 0
      [] OTHER -> TRUE
\* x or y
Or(x, y) == IF Truthy(x) THEN x ELSE y
\* d.get(k, default) on a dict given as a function on its keys
Get(d, k, default) == IF k \in DOMAIN d THEN d[k] ELSE default

Min(a, b) == IF a < b THEN a ELSE b
Max(a, b) == IF a > b THEN a ELSE b

\* Python None, for values that are records otherwise

---------------------------------------------------------------------------
(* Run-length strings *)

Run(c, n) == [c |-> c, n |-> n]

RECURSIVE StrLen(_)
StrLen(s) == IF s = <<>> THEN 0 ELSE Head(s).n + StrLen(Tail(s))

\* s + t, adjacent runs of the same character merged, empty runs dropped
RECURSIVE StrCat(_, _)
StrCat(s, t) ==
    IF t = <<>> THEN s
    ELSE IF Head(t).n = 0 THEN StrCat(s, Tail(t))
    ELSE IF s # <<>> /\ s[Len(s)].c = Head(t).c
         THEN StrCat([s EXCEPT ![Len(s)].n = @ + Head(t).n], Tail(t))
         ELSE StrCat(Append(s, Head(t)), Tail(t))

\* s[:k]
RECURSIVE StrTake(_, _)
StrTake(s, k) ==
    IF s = <<>> \/ k <= 0 THEN <<>>
    ELSE IF Head(s).n >= k THEN <<Run(Head(s).c, k)>>
    ELSE <<Head(s)>> \o StrTake(Tail(s), k - Head(s).n)

---------------------------------------------------------------------------
(* Fingerprints *)

FetcherFingerprintLen == 200
DomPathPrefixLen == 50
DomFingerprintLen == 200

\* getSvgGeometry: fingerprint += d for every path, then substring(0, 200)
RECURSIVE ConcatPaths(_)
ConcatPaths(paths) ==
    IF paths = <<>> THEN <<>> ELSE StrCat(<<Head(paths)>>, ConcatPaths(Tail(paths)))

FetcherFingerprint(paths) == StrTake(ConcatPaths(paths), FetcherFingerprintLen)

\* logo.py: "".join(p.get("d", "")[:50] for p in paths)[:200]
RECURSIVE ConcatPathPrefixes(_)
ConcatPathPrefixes(paths) ==
    IF paths = <<>> THEN <<>>
    ELSE StrCat(StrTake(<<Head(paths)>>, DomPathPrefixLen), ConcatPathPrefixes(Tail(paths)))

DomFingerprint(paths) == StrTake(ConcatPathPrefixes(paths), DomFingerprintLen)

RECURSIVE SumPathLen(_)
SumPathLen(paths) == IF paths = <<>> THEN 0 ELSE Head(paths).n + SumPathLen(Tail(paths))

---------------------------------------------------------------------------
(* The page: elements as the browser renders them.  An element carries the  *)
(* attributes the extraction script and the markup re-scan read.            *)

\* a page holds at most MaxElements graphic elements (vectors and images together)
MaxElements == 2

Rgb(r, g, b) == [k |-> "rgb", r |-> r, g |-> g, b |-> b]
CssNone == [k |-> "none"]
CssEmpty == [k |-> "empty"]

\* <svg> elements: path texts, rendered box, number of command letters, computed style
SvgEl(paths, w, h, x, cmds, color, fill) ==
    [paths |-> paths, w |-> w, h |-> h, x |-> x, cmds |-> cmds,
     colors |-> [color |-> color, fill |-> fill]]

\* one 600-character path, rendered 120 x 40 (aspect ratio 3.0)
Wordmark(cmds) == SvgEl(<<Run("a", 600)>>, 120, 40, 20, cmds, Rgb(26, 26, 238), Rgb(0, 0, 0))
\* a square 24 x 24 icon with one short path
Icon == SvgEl(<<Run("b", 40)>>, 24, 24, 100, 6, CssEmpty, CssNone)
\* a vector without <path> children (for instance <use>), rendered 100 x 30, painted by
\* its fill alone
Sprite == SvgEl(<<>>, 100, 30, 40, 0, CssEmpty, Rgb(51, 51, 51))
\* five long paths, many commands: the scoring caps are reached
Rich == SvgEl(<<Run("c", 300), Run("d", 300), Run("c", 300), Run("d", 300), Run("c", 300)>>,
              300, 60, 10, 80, Rgb(255, 87, 51), CssNone)

SvgEls == {Wordmark(12), Wordmark(30), Icon, Sprite, Rich}

\* <img> elements: src (a text, as a sequence of tokens), rendered box, whether
\* alt + class + src match /logo|brand|mark/i, whether alt or class contain "logo"
ImgEl(src, w, h, kw, altLogo) == [src |-> src, w |-> w, h |-> h, kw |-> kw, altLogo |-> altLogo]

LogoPng == ImgEl(<<"/img/", "logo", ".png">>, 160, 40, TRUE, TRUE)
HeroJpg == ImgEl(<<"/img/", "hero", ".jpg">>, 500, 400, FALSE, FALSE)
TinySvg == ImgEl(<<"/img/", "mark", ".SVG">>, 25, 12, TRUE, FALSE)

ImgEls == {LogoPng, HeroJpg, TinySvg}

\* the bounding rectangles cv2.boundingRect reports for the contours of the header crop
Rect(x, y, w, h) == [x |-> x, y |-> y, w |-> w, h |-> h]
Screenshots ==
    { None,                                                     \* no screenshot was taken
      [decodes |-> FALSE, contours |-> <<>>],                    \* cv2 missing, or imdecode returns None
      [decodes |-> TRUE, contours |-> <<Rect(1180, 5, 40, 40), Rect(30, 10, 60, 20)>>],
      [decodes |-> TRUE, contours |-> <<Rect(0, 0, 10, 10), Rect(1384, 5, 40, 40)>>] }

\* vectors outside brand anchors: in the header (bare, or inside a link to another
\* site), or elsewhere in the document
LooseSvgs == [el : SvgEls, place : {"header", "header_link", "body"}]
\* header images outside brand anchors: bare, or inside a link to another site
HeaderImgs == [el : ImgEls, place : {"header", "header_link"}]

ExternalHref == "https://other.example/"

\* at most one hyperlink that isBrandAnchor accepts, holding a vectors and b images:
\* href "/", inside <header>/<nav> or inside a .header/.navbar container that is not a
\* header landmark
AnchorsOf(a, b) ==
    IF a + b = 0 THEN {<<>>}
    ELSE { <<x>> : x \in [href : {"/"}, where : {"header", "navbar"},
                          svgs : [1..a -> SvgEls], imgs : [1..b -> ImgEls]] }

\* the pages with a vectors and b images in the brand anchor, c vectors and d header
\* images outside it; the extraction script may or may not have run
PagesOf(a, b, c, d) ==
    [html : {TRUE}, extracted : BOOLEAN, anchors : AnchorsOf(a, b),
     loose : [1..c -> LooseSvgs], himgs : [1..d -> HeaderImgs], screenshot : Screenshots]

\* the page of a fetch that returned no HTML
NoHtml == [html |-> FALSE, extracted |-> FALSE, anchors |-> <<>>, loose |-> <<>>,
           himgs |-> <<>>, screenshot |-> None]

Pages ==
    {NoHtml} \cup
    UNION { PagesOf(n[1], n[2], n[3], n[4]) :
              n \in {m \in [1..4 -> 0..MaxElements] : m[1] + m[2] + m[3] + m[4] <= MaxElements} }

---------------------------------------------------------------------------
(* WebsiteFetcher.EXTRACTION_SCRIPT *)

MinSvgSide == 10
MinHeaderSvgArea == 100
MinImgWidth == 20
MinImgHeight == 10
ComplexPathLength == 500
ComplexPathCount == 3
WordmarkCommands == 20

getSvgGeometry(el) ==
    [ width |-> el.w, height |-> el.h, x |-> el.x,
      area |-> el.w * el.h,
      aspectNum |-> el.w, aspectDen |-> Max(1, el.h),     \* aspectRatio = width / max(1, height)
      pathCount |-> Len(el.paths),
      totalPathLength |-> SumPathLen(el.paths),
      pathCommands |-> el.cmds,
      isComplex |-> SumPathLen(el.paths) > ComplexPathLength \/ Len(el.paths) > ComplexPathCount,
      isWordmark |-> 10 * el.w > 15 * el.h /\ el.cmds > WordmarkCommands,
      fingerprint |-> FetcherFingerprint(el.paths) ]

\* extractSvgData returns null for a vector rendered smaller than 10 px
SvgKept(el) == ~(el.w < MinSvgSide \/ el.h < MinSvgSide)

extractSvgData(el, inHeader, inLink) ==
    [ html |-> el, geometry |-> getSvgGeometry(el), colors |-> el.colors,
      inHeader |-> inHeader, isInLink |-> inLink ]

ImgKept(el) == ~(el.w < MinImgWidth \/ el.h < MinImgHeight)

extractImageData(el, inHeader, linkHref) ==
    [ src |-> el.src, width |-> el.w, height |-> el.h,
      aspectNum |-> el.w, aspectDen |-> Max(1, el.h),     \* aspectRatio = width / max(1, height)
      inHeader |-> inHeader, linkHref |-> linkHref, isLogoKeyword |-> el.kw ]

RECURSIVE Flatten(_)
Flatten(ss) == IF ss = <<>> THEN <<>> ELSE Head(ss) \o Flatten(Tail(ss))

KeptSvgs(els) == SelectSeq(els, SvgKept)
KeptImgs(els) == SelectSeq(els, ImgKept)

\* results.brandAnchors: an anchor is pushed when it holds a kept vector or image
BrandAnchorRecord(a) ==
    [ href |-> a.href,
      svgs |-> [i \in 1..Len(KeptSvgs(a.svgs)) |->
                    extractSvgData(KeptSvgs(a.svgs)[i], a.where = "header", TRUE)],
      imgs |-> [i \in 1..Len(KeptImgs(a.imgs)) |->
                    extractImageData(KeptImgs(a.imgs)[i], a.where = "header", a.href)] ]

brandAnchors(p) ==
    LET recs == [i \in 1..Len(p.anchors) |-> BrandAnchorRecord(p.anchors[i])]
        pushed(r) == Len(r.svgs) > 0 \/ Len(r.imgs) > 0
    IN  SelectSeq(recs, pushed)

\* results.allSvgs: 'header svg, nav svg, [role="banner"] svg' with area > 100; the
\* vectors of a brand anchor that lies in the header are selected as well
HeaderSvgKept(el) == SvgKept(el) /\ el.w * el.h > MinHeaderSvgArea

allSvgs(p) ==
    LET ofAnchor(a) ==
            LET k == SelectSeq(a.svgs, HeaderSvgKept)
            IN  IF a.where = "header"
                THEN [i \in 1..Len(k) |-> extractSvgData(k[i], TRUE, TRUE)]
                ELSE <<>>
        inHeader(l) == l.place # "body" /\ HeaderSvgKept(l.el)
        loose == SelectSeq(p.loose, inHeader)
    IN  Flatten([i \in 1..Len(p.anchors) |-> ofAnchor(p.anchors[i])])
        \o [i \in 1..Len(loose) |-> extractSvgData(loose[i].el, TRUE, loose[i].place = "header_link")]

\* results.headerImages: 'header img, nav img, [role="banner"] img'
headerImages(p) ==
    LET ofAnchor(a) ==
            LET k == KeptImgs(a.imgs)
            IN  IF a.where = "header"
                THEN [i \in 1..Len(k) |-> extractImageData(k[i], TRUE, a.href)]
                ELSE <<>>
        kept(l) == ImgKept(l.el)
        loose == SelectSeq(p.himgs, kept)
    IN  Flatten([i \in 1..Len(p.anchors) |-> ofAnchor(p.anchors[i])])
        \o [i \in 1..Len(loose) |->
                extractImageData(loose[i].el, TRUE,
                                 IF loose[i].place = "header_link" THEN ExternalHref ELSE "")]

\* BeautifulSoup(html): the hyperlinks that 'header a, nav a, [role=banner] a, a[href="/"]'
\* selects, in document order, and every <svg> of the document
Soup(p) ==
    LET linked(l) == l.place = "header_link"
        ls == SelectSeq(p.loose, linked)
        li == SelectSeq(p.himgs, linked)
    IN  [ anchors |->
              [i \in 1..Len(p.anchors) |->
                  [href |-> p.anchors[i].href, svgs |-> p.anchors[i].svgs, imgs |-> p.anchors[i].imgs]]
              \o [i \in 1..Len(ls) |-> [href |-> ExternalHref, svgs |-> <<ls[i].el>>, imgs |-> <<>>]]
              \o [i \in 1..Len(li) |-> [href |-> ExternalHref, svgs |-> <<>>, imgs |-> <<li[i].el>>]],
          svgs |-> Flatten([i \in 1..Len(p.anchors) |-> p.anchors[i].svgs])
                   \o [i \in 1..Len(p.loose) |-> p.loose[i].el] ]

\* fetch_async: the geometry lists are empty when the extraction script did not run,
\* the soup is None when there is no HTML
fetch_async(p) ==
    [ soup |-> IF p.html THEN Soup(p) ELSE None,
      brand_anchors |-> IF p.extracted THEN brandAnchors(p) ELSE <<>>,
      all_svgs |-> IF p.extracted THEN allSvgs(p) ELSE <<>>,
      header_images |-> IF p.extracted THEN headerImages(p) ELSE <<>>,
      screenshot |-> p.screenshot ]

---------------------------------------------------------------------------
(* LogoExtractor *)

Origin == "https://site.example"
HomeHrefs == {"/", Origin, "https://site.example/"}

Count(seq, x) == Cardinality({i \in 1..Len(seq) : seq[i] = x})

AnchorSvgFingerprints(anchors) ==
    Flatten([i \in 1..Len(anchors) |->
                [j \in 1..Len(anchors[i].svgs) |-> anchors[i].svgs[j].geometry.fingerprint]])
HeaderSvgFingerprints(svgs) == [i \in 1..Len(svgs) |-> svgs[i].geometry.fingerprint]
DomSvgFingerprints(soup) ==
    IF soup = None THEN <<>>
    ELSE [i \in 1..Len(soup.svgs) |-> DomFingerprint(soup.svgs[i].paths)]

\* _build_fingerprint_map: usage[fp] += 1 for every non-empty fingerprint of the brand
\* anchors, of all_svgs, and of the <svg> elements of the soup
build_fingerprint_map(soup, brand_anchors, all_svgs) ==
    LET fps == AnchorSvgFingerprints(brand_anchors) \o HeaderSvgFingerprints(all_svgs)
               \o DomSvgFingerprints(soup)
    IN  [fp \in {fps[i] : i \in 1..Len(fps)} \ {<<>>} |-> Count(fps, fp)]

\* LogoExtractor.__init__
LogoExtractor(f) ==
    [ soup |-> f.soup, brand_anchors |-> f.brand_anchors, all_svgs |-> f.all_svgs,
      header_images |-> f.header_images, screenshot |-> f.screenshot,
      svg_fingerprint_usage |-> build_fingerprint_map(f.soup, f.brand_anchors, f.all_svgs) ]

UsageOf(usage, fp) == IF fp \in DOMAIN usage THEN usage[fp] ELSE 0

\* _is_repeated_svg
is_repeated_svg(usage, fingerprint) ==
    IF fingerprint = <<>> THEN FALSE ELSE UsageOf(usage, fingerprint) > 1

\* _calculate_svg_score, in thousandths of a point
calculate_svg_score(geometry) ==
    LET num == geometry.aspectNum
        den == geometry.aspectDen
        score ==
              Min(20 * geometry.totalPathLength, 30000)      \* min(path_len / 50, 30)
            + Min(3000 * geometry.pathCount, 15000)          \* min(path_count * 3, 15)
            + Min(200 * geometry.pathCommands, 15000)        \* min(path_commands / 5, 15)
            + (IF num > 2 * den THEN 20000                   \* aspect_ratio > 2
               ELSE IF 2 * num > 3 * den THEN 10000 ELSE 0)  \* aspect_ratio > 1.5
            - (IF 5 * num > 4 * den /\ 5 * num < 6 * den THEN 10000 ELSE 0)  \* 0.8 < ar < 1.2
            + (IF geometry.area > 2000 THEN 10000
               ELSE IF geometry.area > 500 THEN 5000 ELSE 0)
            + (IF geometry.x < 300 THEN 5000 ELSE 0)
            + (IF geometry.isComplex THEN 5000 ELSE 0)
    IN  Max(0, score)

\* _calculate_image_score, in thousandths of a point
calculate_image_score(img) ==
    IF img.width < 30 \/ img.height < 15 THEN 0
    ELSE  20000
        + (IF img.isLogoKeyword THEN 30000 ELSE 0)
        + (IF 2 * img.aspectNum > 3 * img.aspectDen THEN 15000          \* aspect > 1.5
           ELSE IF 5 * img.aspectNum > 6 * img.aspectDen THEN 5000 ELSE 0)  \* aspect > 1.2
        + (IF 50 < img.width /\ img.width < 400 THEN 10000 ELSE 0)
        + (IF img.inHeader THEN 10000 ELSE 0)

\* rgb_to_hex (logo.py): "#%02x%02x%02x" of an rgb()/rgba() text, None for anything else
HexOf(v) == [k |-> "hex", r |-> v.r, g |-> v.g, b |-> v.b]
CssTruthy(v) == v.k # "empty"
\* rgb_to_hex(v) or v
HexOrSelf(v) == IF v.k = "rgb" THEN HexOf(v) ELSE v

\* "Resolve color" of _extract_from_brand_anchors
ResolveAnchorColor(colors) ==
    IF CssTruthy(colors.color) THEN HexOrSelf(colors.color)
    ELSE IF CssTruthy(colors.fill) /\ colors.fill.k # "none" THEN HexOrSelf(colors.fill)
    ELSE None
\* the colour of _extract_from_header_svgs: the text colour only
ResolveHeaderColor(colors) ==
    IF CssTruthy(colors.color) THEN HexOrSelf(colors.color) ELSE None

ImageType(src) == IF StrContains(StrLower(src), ".svg") THEN "svg" ELSE "image"

AnchorSvgConfidenceNoFloor(score) == Min(95000, score)
\* max(0.75, min(0.95, score / 100))
AnchorSvgConfidence(score) == Max(75000, Min(95000, score))
\* max(0.65, min(0.85, score / 100))
AnchorImgConfidence(score) == Max(65000, Min(85000, score))

AnchorSvgLogo(svg_data, score) ==
    [ found |-> TRUE, type |-> "inline_svg", svg |-> svg_data.html, url |-> None,
      color |-> ResolveAnchorColor(svg_data.colors),
      confidence |-> AnchorSvgConfidence(score),
      source |-> "brand_anchor_svg",
      is_wordmark |-> svg_data.geometry.isWordmark,
      complexity |-> [ path_count |-> svg_data.geometry.pathCount,
                       path_length |-> svg_data.geometry.totalPathLength ] ]

AnchorImgLogo(img_data, score) ==
    [ found |-> TRUE, type |-> ImageType(img_data.src), svg |-> None,
      url |-> [urljoin |-> img_data.src], color |-> None,
      confidence |-> AnchorImgConfidence(score),
      source |-> "brand_anchor_img" ]

NoBest == [score |-> 0, logo |-> None]

\* the loop over anchor.get("svgs", [])
RECURSIVE AnchorSvgLoop(_, _, _)
AnchorSvgLoop(usage, svgs, best) ==
    IF svgs = <<>> THEN best
    ELSE LET svg_data == Head(svgs)
             score == calculate_svg_score(svg_data.geometry)
         IN  IF is_repeated_svg(usage, svg_data.geometry.fingerprint)
             THEN AnchorSvgLoop(usage, Tail(svgs), best)
             ELSE IF score > best.score
             THEN AnchorSvgLoop(usage, Tail(svgs),
                                [score |-> score, logo |-> AnchorSvgLogo(svg_data, score)])
             ELSE AnchorSvgLoop(usage, Tail(svgs), best)

\* the loop over anchor.get("imgs", [])
RECURSIVE AnchorImgLoop(_, _)
AnchorImgLoop(imgs, best) ==
    IF imgs = <<>> THEN best
    ELSE LET img_data == Head(imgs)
             score == calculate_image_score(img_data)
         IN  IF img_data.src = <<>> THEN AnchorImgLoop(Tail(imgs), best)
             ELSE IF score > best.score
             THEN AnchorImgLoop(Tail(imgs), [score |-> score, logo |-> AnchorImgLogo(img_data, score)])
             ELSE AnchorImgLoop(Tail(imgs), best)

RECURSIVE AnchorLoop(_, _, _)
AnchorLoop(usage, anchors, best) ==
    IF anchors = <<>> THEN best
    ELSE LET afterSvgs == AnchorSvgLoop(usage, Head(anchors).svgs, best)
             afterImgs == IF afterSvgs.score < 40000        \* if best_score < 40
                          THEN AnchorImgLoop(Head(anchors).imgs, afterSvgs)
                          ELSE afterSvgs
         IN  AnchorLoop(usage, Tail(anchors), afterImgs)

\* _extract_from_brand_anchors
extract_from_brand_anchors(ex) ==
    AnchorLoop(ex.svg_fingerprint_usage, ex.brand_anchors, NoBest).logo

HeaderSvgLogo(svg_data, score) ==
    [ found |-> TRUE, type |-> "inline_svg", svg |-> svg_data.html, url |-> None,
      color |-> ResolveHeaderColor(svg_data.colors),
      confidence |-> Min(80000, score),                     \* min(0.8, score / 100)
      source |-> "header_svg",
      is_wordmark |-> svg_data.geometry.isWordmark ]

RECURSIVE HeaderSvgLoop(_, _, _)
HeaderSvgLoop(usage, svgs, best) ==
    IF svgs = <<>> THEN best
    ELSE LET svg_data == Head(svgs)
             raw == calculate_svg_score(svg_data.geometry)
             score == IF svg_data.isInLink THEN raw ELSE (raw * 7) \div 10   \* score *= 0.7
         IN  IF is_repeated_svg(usage, svg_data.geometry.fingerprint)
             THEN HeaderSvgLoop(usage, Tail(svgs), best)
             ELSE IF score > best.score
             THEN HeaderSvgLoop(usage, Tail(svgs),
                                [score |-> score, logo |-> HeaderSvgLogo(svg_data, score)])
             ELSE HeaderSvgLoop(usage, Tail(svgs), best)

\* _extract_from_header_svgs
extract_from_header_svgs(ex) ==
    HeaderSvgLoop(ex.svg_fingerprint_usage, ex.all_svgs, NoBest).logo

HeaderImageLogo(img_data, score) ==
    [ found |-> TRUE, type |-> ImageType(img_data.src), svg |-> None,
      url |-> [urljoin |-> img_data.src], color |-> None,
      confidence |-> Min(75000, score),                     \* min(0.75, score / 100)
      source |-> "header_image" ]

RECURSIVE HeaderImageLoop(_, _)
HeaderImageLoop(imgs, best) ==
    IF imgs = <<>> THEN best
    ELSE LET img_data == Head(imgs)
             score == calculate_image_score(img_data)
                      + (IF img_data.linkHref \in HomeHrefs THEN 25000 ELSE 0)
         IN  IF score > best.score
             THEN HeaderImageLoop(Tail(imgs), [score |-> score, logo |-> HeaderImageLogo(img_data, score)])
             ELSE HeaderImageLoop(Tail(imgs), best)

\* _extract_from_header_images
extract_from_header_images(ex) == HeaderImageLoop(ex.header_images, NoBest).logo

\* the candidates of _fallback_dom_extraction, in the order they are appended
RECURSIVE DomCandidates(_, _)
DomCandidates(usage, anchors) ==
    IF anchors = <<>> THEN <<>>
    ELSE LET a == Head(anchors)
             rest == DomCandidates(usage, Tail(anchors))
             homeLink == a.href \in HomeHrefs \cup {"#"} \/ a.href = "/"   \* or href.startswith("/")
             svg == IF a.svgs = <<>> THEN None ELSE Head(a.svgs)         \* a.find("svg")
             img == IF a.imgs = <<>> THEN None ELSE Head(a.imgs)         \* a.find("img")
             svgCand == IF svg = None THEN <<>>
                        ELSE << [ type |-> "svg", element |-> svg,
                                  score |-> 5000 * Len(svg.paths) + 20 * SumPathLen(svg.paths) ] >>
             imgCand == IF img = None \/ (img # None /\ img.src = <<>>) THEN <<>>
                        ELSE << [ type |-> "img", src |-> img.src,
                                  score |-> 20000 + (IF img.altLogo THEN 40000 ELSE 0) ] >>
         IN  IF ~homeLink THEN rest
             ELSE IF svg # None /\ is_repeated_svg(usage, DomFingerprint(svg.paths)) THEN rest
             ELSE svgCand \o imgCand \o rest

\* candidates.sort(key=score, reverse=True)[0]: the first candidate of the highest score
BestCandidate(cands) ==
    LET i == CHOOSE i \in 1..Len(cands) :
                 /\ \A j \in 1..Len(cands) : cands[j].score <= cands[i].score
                 /\ \A j \in 1..(i - 1) : cands[j].score < cands[i].score
    IN  cands[i]

\* _fallback_dom_extraction
fallback_dom_extraction(ex) ==
    IF ex.soup = None THEN None
    ELSE LET cands == DomCandidates(ex.svg_fingerprint_usage, ex.soup.anchors)
         IN  IF cands = <<>> THEN None
             ELSE LET best == BestCandidate(cands)
                  IN  IF best.type = "svg"
                      THEN [ found |-> TRUE, type |-> "inline_svg", svg |-> best.element,
                             url |-> None, color |-> None,
                             confidence |-> Min(60000, best.score),   \* min(0.6, score / 100)
                             source |-> "dom_fallback_svg" ]
                      ELSE [ found |-> TRUE, type |-> "image", svg |-> None,
                             url |-> [urljoin |-> best.src], color |-> None,
                             confidence |-> Min(50000, best.score),   \* min(0.5, score / 100)
                             source |-> "dom_fallback_img" ]

\* The screenshot is the 1440 x 600 clip the fetcher takes; the header crop is its top 20%
ShotWidth == 1440
ShotHeight == 600
HeaderHeight == (ShotHeight * 20) \div 100

\* the filters of the contour loop
ContourKept(c) ==
    /\ ~(c.w < 40 \/ c.h < 20)
    /\ ~(10 * c.w > 4 * ShotWidth)            \* w > width * 0.4
    /\ ~(10 * c.h > 8 * HeaderHeight)         \* h > header_height * 0.8
    /\ ~(c.w > 8 * c.h \/ 10 * c.w < 3 * c.h) \* aspect > 8 or aspect < 0.3

\* pos_score * 0.3 + size_score * 0.4 + aspect_score * 0.3, in units of 1/100000
ContourScore(c) ==
      (30000 * (2 * ShotWidth - (2 * c.x + c.w))) \div (2 * ShotWidth)
    + Min(8 * c.w * c.h, 40000)
    + (IF 2 * c.w > 3 * c.h /\ c.w < 4 * c.h THEN 30000 ELSE 15000)

RECURSIVE ContourLoop(_, _)
ContourLoop(contours, max_score) ==
    IF contours = <<>> THEN max_score
    ELSE IF ContourKept(Head(contours)) /\ ContourScore(Head(contours)) > max_score
         THEN ContourLoop(Tail(contours), ContourScore(Head(contours)))
         ELSE ContourLoop(Tail(contours), max_score)

\* round(x, 2) of a value given in units of 1/100000: to the nearest 1000, ties to even
Round2(v) ==
    LET lo == (v \div 1000) * 1000
        r == v - lo
    IN  IF r < 500 THEN lo
        ELSE IF r > 500 THEN lo + 1000
        ELSE IF (lo \div 1000) % 2 = 0 THEN lo ELSE lo + 1000

\* round(max_score * 0.5, 2)
VisionConfidence(max_score) == Round2(max_score \div 2)

\* _vision_fallback; the crop stands for the cropped, re-encoded region
vision_fallback(ex) ==
    IF ex.screenshot = None THEN None
    ELSE IF ~ex.screenshot.decodes THEN None       \* ImportError, any exception, img is None
    ELSE LET max_score == ContourLoop(ex.screenshot.contours, 0)
         IN  IF max_score > 30000                  \* best_candidate and max_score > 0.3
             THEN [ found |-> TRUE, type |-> "vision_crop", svg |-> None,
                    url |-> [crop |-> max_score], color |-> None,
                    confidence |-> VisionConfidence(max_score),
                    source |-> "vision_fallback" ]
             ELSE None

\* type None is written "None": the other descriptors hold a text there
NotFound ==
    [ found |-> FALSE, type |-> "None", svg |-> None, url |-> None, color |-> None,
      confidence |-> 0, source |-> "none" ]

\* logo and logo.get("found")
Found(l) == l # None /\ l.found


Tier1GateStrict(l) == Found(l) /\ l.confidence > 90000
\* logo and logo.get("found") and logo.get("confidence", 0) > 0.5
Tier1Gate(l) == Found(l) /\ l.confidence > 50000
\* logo and logo.get("found") and logo.get("confidence", 0) > 0.4
Tier2Gate(l) == Found(l) /\ l.confidence > 40000

\* extract(), one tier at a time.  st holds the position, the local variable logo, the
\* tiers whose method has been called, and the returned descriptor.
Returned(st, l, tier) ==
    [pc |-> "done", logo |-> l, evaluated |-> st.evaluated \cup {tier}, result |-> l]
Continued(st, l, tier, next) ==
    [pc |-> next, logo |-> l, evaluated |-> st.evaluated \cup {tier}, result |-> st.result]
Skipped(st, next) == [st EXCEPT !.pc = next]

Tier1Step(ex, st) ==
    LET l == extract_from_brand_anchors(ex)
    IN  IF Tier1Gate(l) THEN Returned(st, l, 1) ELSE Continued(st, l, 1, "tier2")

Tier2Step(ex, st) ==
    IF ~Found(st.logo)                                  \* if not logo or not logo.get("found")
    THEN LET l == extract_from_header_svgs(ex)
         IN  IF Tier2Gate(l) THEN Returned(st, l, 2) ELSE Continued(st, l, 2, "tier3")
    ELSE Skipped(st, "tier3")

Tier3Step(ex, st) ==
    IF ~Found(st.logo)
    THEN LET l == extract_from_header_images(ex)
         IN  IF Found(l) THEN Returned(st, l, 3) ELSE Continued(st, l, 3, "tier4")
    ELSE Skipped(st, "tier4")

Tier4Step(ex, st) ==
    IF ~Found(st.logo)
    THEN LET l == fallback_dom_extraction(ex)
         IN  IF Found(l) THEN Returned(st, l, 4) ELSE Continued(st, l, 4, "tier5")
    ELSE Skipped(st, "tier5")

Tier5StepKeepsLast(ex, st) ==
    IF ex.screenshot # None
    THEN LET l == vision_fallback(ex)
         IN  IF Found(l) THEN Returned(st, l, 5)
             ELSE [pc |-> "done", logo |-> l, evaluated |-> st.evaluated \cup {5},
                   result |-> IF st.logo = None THEN NotFound ELSE st.logo]
    ELSE [st EXCEPT !.pc = "done", !.result = NotFound]
Tier5Step(ex, st) ==
    IF ex.screenshot # None                             \* if self.screenshot
    THEN LET l == vision_fallback(ex)
         IN  IF Found(l) THEN Returned(st, l, 5)
             ELSE [pc |-> "done", logo |-> l, evaluated |-> st.evaluated \cup {5}, result |-> NotFound]
    ELSE [st EXCEPT !.pc = "done", !.result = NotFound]

ExtractStart == [pc |-> "tier1", logo |-> None, evaluated |-> {}, result |-> None]

ExtractStep(ex, st) ==
    CASE st.pc = "tier1" -> Tier1Step(ex, st)
      [] st.pc = "tier2" -> Tier2Step(ex, st)
      [] st.pc = "tier3" -> Tier3Step(ex, st)
      [] st.pc = "tier4" -> Tier4Step(ex, st)
      [] st.pc = "tier5" -> Tier5Step(ex, st)

\* LogoExtractor.extract(): the descriptor it returns
RECURSIVE RunExtract(_, _)
RunExtract(ex, st) == IF st.pc = "done" THEN st ELSE RunExtract(ex, ExtractStep(ex, st))
extract(ex) == RunExtract(ex, ExtractStart).result

---------------------------------------------------------------------------
(* Specification of one LogoExtractor(...).extract() call on a fetched page *)

ExtractState == [pc |-> pc, logo |-> logo, evaluated |-> evaluated, result |-> result]
SetExtractState(st) ==
    /\ pc' = st.pc
    /\ logo' = st.logo
    /\ evaluated' = st.evaluated
    /\ result' = st.result
    /\ UNCHANGED <<page, extractor>>
    /\ UNCHANGED <<pipeVars, replyVars, colorVars>>

InitLogo ==
    /\ page \in Pages
    /\ extractor = LogoExtractor(fetch_async(page))
    /\ pc = "tier1"
    /\ logo = None
    /\ evaluated = {}
    /\ result = None
    /\ request = None
    /\ step = "extract"
    /\ color_extractor = None
    /\ prog_colors = None
    /\ prog_typo = None
    /\ prog_logo = None
    /\ skip_llm = FALSE
    /\ hint_requests = 0
    /\ logo_reply = None
    /\ llm_result = None
    /\ final_colors = None
    /\ final_typo = None
    /\ final_logo = None
    /\ status = "running"
    /\ credential = None
    /\ colors_reply = None
    /\ typo_reply = None
    /\ hex_input = None
    /\ normalized = None
    /\ css_contents = None
    /\ color_result = None

Tier1 == pc = "tier1" /\ SetExtractState(Tier1Step(extractor, ExtractState))
Tier2 == pc = "tier2" /\ SetExtractState(Tier2Step(extractor, ExtractState))
Tier3 == pc = "tier3" /\ SetExtractState(Tier3Step(extractor, ExtractState))
Tier4 == pc = "tier4" /\ SetExtractState(Tier4Step(extractor, ExtractState))
Tier5 == pc = "tier5" /\ SetExtractState(Tier5Step(extractor, ExtractState))

NextLogo == Tier1 \/ Tier2 \/ Tier3 \/ Tier4 \/ Tier5

SpecLogo == InitLogo /\ [][NextLogo]_vars

---------------------------------------------------------------------------
(* Properties of extract() *)

ExtractDone == pc = "done"
VectorSources == {"brand_anchor_svg", "header_svg", "dom_fallback_svg"}
ReturnedVector == ExtractDone /\ result.found /\ result.source \in VectorSources

\* the fingerprint of the returned vector, in the form its tier computes it
ReturnedFingerprint ==
    IF result.source = "dom_fallback_svg"
    THEN DomFingerprint(result.svg.paths)
    ELSE FetcherFingerprint(result.svg.paths)

\* how many vectors of the page carry the returned vector's fingerprint: every <svg> of
\* the page (inside a brand anchor, in the header, elsewhere) counted once
PageSvgs == Flatten([i \in 1..Len(page.anchors) |-> page.anchors[i].svgs])
            \o [i \in 1..Len(page.loose) |-> page.loose[i].el]
PageOccurrences ==
    IF result.source = "dom_fallback_svg"
    THEN Count([i \in 1..Len(PageSvgs) |-> DomFingerprint(PageSvgs[i].paths)], ReturnedFingerprint)
    ELSE Count([i \in 1..Len(PageSvgs) |-> FetcherFingerprint(PageSvgs[i].paths)], ReturnedFingerprint)

\* C1 (as claimed): a vector whose fingerprint occurs two or more times on the page is
\* never the logo extract() returns, whichever tier returns it.
C1_RepeatedFingerprintNeverReturned ==
    ReturnedVector => PageOccurrences < 2

\* the candidate of each tier, and the first tier in order whose accept gate passes
Candidate(t) ==
    CASE t = 1 -> extract_from_brand_anchors(extractor)
      [] t = 2 -> extract_from_header_svgs(extractor)
      [] t = 3 -> extract_from_header_images(extractor)
      [] t = 4 -> fallback_dom_extraction(extractor)
      [] t = 5 -> IF extractor.screenshot = None THEN None ELSE vision_fallback(extractor)
Accepts(t) ==
    LET c == Candidate(t)
    IN  /\ c # None
        /\ c.found
        /\ (t = 1 => c.confidence > 50000)
        /\ (t = 2 => c.confidence > 40000)
AcceptingTiers == {t \in 1..5 : Accepts(t)}
FirstAccepting == CHOOSE t \in AcceptingTiers : \A u \in AcceptingTiers : t <= u

\* tier 2 produced a candidate and its gate (confidence > 0.4) rejected it
Tier2Rejected == Candidate(2) # None /\ Candidate(2).found /\ ~Accepts(2)

\* C2 (as claimed): the tiers are evaluated strictly in order and the candidate of the
\* first tier whose gate passes is returned; a candidate that tier 2 produces and its
\* gate rejects does not keep tiers 3 and 4 from being evaluated.
C2_FirstAcceptedTierReturned ==
    ExtractDone =>
        /\ result = (IF AcceptingTiers = {} THEN NotFound ELSE Candidate(FirstAccepting))
        /\ (2 \in evaluated /\ Tier2Rejected =>
                /\ 3 \in evaluated
                /\ (Accepts(3) \/ 4 \in evaluated))

\* C3: once tier 1 has produced a found candidate with confidence > 0.5, extract() has
\* returned that candidate and no tier but tier 1 has been or will be evaluated.
C3_Tier1ShortCircuits ==
    (1 \in evaluated /\ Accepts(1)) =>
        /\ pc = "done"
        /\ evaluated = {1}
        /\ result = Candidate(1)

\* C3 witness: tier 1 returned while the header images, the markup and the screenshot
\* would have given the later tiers something to find
C3_Witness ==
    /\ pc = "done"
    /\ evaluated = {1}
    /\ result.found
    /\ result.confidence > 50000
    /\ extractor.header_images # <<>>
    /\ extractor.screenshot # None

\* the composite visual score of the best contour
CompositeScore == ContourLoop(extractor.screenshot.contours, 0)

ConfidenceBounds(c, src) ==
    /\ c >= 0
    /\ (src = "brand_anchor_svg" => 75000 <= c /\ c <= 95000)
    /\ (src = "brand_anchor_img" => 65000 <= c /\ c <= 85000)
    /\ (src = "header_svg" => c <= 80000)
    /\ (src = "header_image" => c <= 75000)
    /\ (src = "dom_fallback_svg" => c <= 60000)
    /\ (src = "dom_fallback_img" => c <= 50000)

\* C4 (as claimed): the returned confidence respects the bound of its tier, and a
\* vision_fallback confidence equals half of the composite visual score.
C4_ConfidenceBoundsExactHalf ==
    ExtractDone =>
        /\ ConfidenceBounds(result.confidence, result.source)
        /\ (result.source = "vision_fallback" => 2 * result.confidence = CompositeScore)

\* C4 (amended): the returned confidence respects the bound of its tier, and a
\* vision_fallback confidence is half of the composite visual score rounded to two
\* decimals: a multiple of 0.01 within 0.005 of the half.
C4_ConfidenceBoundsRoundedHalf ==
    ExtractDone =>
        /\ ConfidenceBounds(result.confidence, result.source)
        /\ (result.source = "vision_fallback" =>
                /\ result.confidence % 1000 = 0
                /\ 2 * result.confidence - CompositeScore <= 1000
                /\ CompositeScore - 2 * result.confidence <= 1000)

\* C4 witness: a vision_fallback descriptor whose confidence differs from the exact half
C4_Witness ==
    /\ ExtractDone
    /\ result.source = "vision_fallback"
    /\ 2 * result.confidence # CompositeScore

\* the brand anchor holds exactly one vector: 600 characters of path text, aspect
\* ratio 3.0, and no other vector of the page has its fingerprint
C5_Case ==
    /\ Len(extractor.brand_anchors) = 1
    /\ Len(extractor.brand_anchors[1].svgs) = 1
    /\ LET g == extractor.brand_anchors[1].svgs[1].geometry
       IN  /\ g.totalPathLength = 600
           /\ g.aspectNum = 3 * g.aspectDen
           /\ Count([i \in 1..Len(PageSvgs) |-> FetcherFingerprint(PageSvgs[i].paths)],
                    g.fingerprint) = 1

\* C5 (as claimed): for such an anchor extract() returns a found logo from tier 1 with
\* confidence >= 0.75 and the wordmark flag set.
C5_WordmarkFromTier1 ==
    (ExtractDone /\ C5_Case) =>
        /\ result.found
        /\ result.source = "brand_anchor_svg"
        /\ result.confidence >= 75000
        /\ result.is_wordmark

---------------------------------------------------------------------------
(* Stylesheets.  A CSS block is a sequence of declarations; a declaration   *)
(* has a selector (searched for words, so a token sequence), a property     *)
(* name, the colour literals of its value and, for font-family, the tokens  *)
(* of its value.  A colour literal is written as hex or as hsl(): the regex *)
(* pass of ColorExtractor sees hex literals only, the cssutils pass both.   *)

MaxDecls == 2

Lit(hex, form) == [hex |-> hex, form |-> form]
Decl(sel, prop, colors, fonts) == [sel |-> sel, prop |-> prop, colors |-> colors, fonts |-> fonts]

DeclSamples ==
    { Decl(<<".btn">>, "background-color", <<Lit("#e63946", "hex")>>, <<>>),
      Decl(<<"body">>, "background-color", <<Lit("#a8dadc", "hex")>>, <<>>),
      Decl(<<"body">>, "background", <<Lit("#ffffff", "hex")>>, <<>>),
      Decl(<<" a">>, "color", <<Lit("#1d3557", "hex")>>, <<>>),
      Decl(<<"main">>, "background", <<Lit("#1d3557", "hsl")>>, <<>>),
      Decl(<<"h1">>, "font-family", <<>>, <<"Poppins", ",", " ", "Arial">>),
      Decl(<<"body">>, "font-family", <<>>, <<"Lora">>) }

DeclSeqs == UNION { [1..n -> DeclSamples] : n \in 1..MaxDecls }
\* the declarations in one <style> block, or one block per declaration
OneBlock(ds) == <<ds>>
BlockPerDecl(ds) == [i \in 1..Len(ds) |-> <<ds[i]>>]
CssContents == {<<>>} \cup {OneBlock(ds) : ds \in DeclSeqs} \cup {BlockPerDecl(ds) : ds \in DeclSeqs}

---------------------------------------------------------------------------
(* colors.py *)

NEUTRAL_COLORS == {"#000000", "#ffffff", "#111111", "#222222", "#333333", "#f5f5f5"}

hex_to_rgb(hex) ==
    CASE hex = "#e63946" -> <<230, 57, 70>>
      [] hex = "#a8dadc" -> <<168, 218, 220>>
      [] hex = "#1d3557" -> <<29, 53, 87>>
      [] hex = "#ffffff" -> <<255, 255, 255>>
      [] hex = "#222222" -> <<34, 34, 34>>
      [] hex = "#ff5733" -> <<255, 87, 51>>
      [] hex = "#33ff57" -> <<51, 255, 87>>
      [] hex = "#1a1aee" -> <<26, 26, 238>>
      [] OTHER -> <<0, 0, 0>>

Abs(x) == IF x < 0 THEN -x ELSE x
is_neutral(hex) ==
    \/ hex \in NEUTRAL_COLORS
    \/ LET c == hex_to_rgb(hex)
       IN  Abs(c[1] - c[2]) < 15 /\ Abs(c[2] - c[3]) < 15 /\ Abs(c[1] - c[3]) < 15

MaxC(hex) == LET c == hex_to_rgb(hex) IN Max(c[1], Max(c[2], c[3]))
MinC(hex) == LET c == hex_to_rgb(hex) IN Min(c[1], Min(c[2], c[3]))
\* colorsys.rgb_to_hls on r/255, g/255, b/255: l = (max + min) / 2 and
\* s = (max - min) / (max + min) when l <= 0.5, else (max - min) / (2 - max - min);
\* the saturation is kept as the fraction SatNum / SatDen
SatNum(hex) == MaxC(hex) - MinC(hex)
SatDen(hex) ==
    IF MaxC(hex) = MinC(hex) THEN 1
    ELSE IF MaxC(hex) + MinC(hex) <= 255 THEN MaxC(hex) + MinC(hex)
    ELSE 510 - MaxC(hex) - MinC(hex)
get_color_saturation_gt(a, b) == SatNum(a) * SatDen(b) > SatNum(b) * SatDen(a)
\* get_color_lightness(c) > 0.5 and < 0.3
IsLight(hex) == MaxC(hex) + MinC(hex) > 255
IsDark(hex) == (MaxC(hex) + MinC(hex)) * 10 < 1530

\* a defaultdict(int) in insertion order
Incr(tally, key) ==
    IF \E i \in 1..Len(tally) : tally[i].key = key
    THEN [i \in 1..Len(tally) |->
            IF tally[i].key = key THEN [tally[i] EXCEPT !.count = @ + 1] ELSE tally[i]]
    ELSE Append(tally, [key |-> key, count |-> 1])

ColorExtractor ==
    [ context_colors |-> [primary |-> <<>>, secondary |-> <<>>, background |-> <<>>,
                          accent |-> <<>>, neutrals |-> <<>>],
      all_colors |-> <<>> ]

Tallied(ce, context, color) ==
    [ce EXCEPT !.context_colors[context] = Incr(@, color)]

\* "x in s" for a selector: the searched words that are substrings of a selector token
SelectorWords(token) ==
    CASE token = "a:hover" -> {"a:", ":hover"}
      [] OTHER -> {token}
SelectorHas(sel, words) ==
    \E x \in words : \E i \in 1..Len(sel) : x \in SelectorWords(StrLower(sel)[i])

classify_context(selector, p) ==
    IF /\ SelectorHas(selector, {"button", ".btn", "[type=submit]", ".cta", "submit"})
       /\ p \in {"background", "background-color", "border-color"}
    THEN "primary"
    ELSE IF SelectorHas(selector, {":link", ":visited", "a:", " a", ".link"}) /\ p = "color"
    THEN "secondary"
    ELSE IF SelectorHas(selector, {":hover", ":focus", ":active"})
    THEN "accent"
    ELSE IF p \in {"background", "background-color"}
    THEN IF SelectorHas(selector, {"body", "html", ".bg-", "main", ".wrapper", ".container", ":root"})
         THEN "background" ELSE "primary"
    ELSE IF p = "color"
    THEN IF SelectorHas(selector, {"h1", "h2", ".heading", ".title"}) THEN "secondary" ELSE "primary"
    ELSE IF p \in {"border", "border-color"}
    THEN "accent"
    ELSE "None"

\* the colour literals of a block in text order, with the declaration they stand in
LiteralsOf(d) == [i \in 1..Len(d.colors) |-> [sel |-> d.sel, prop |-> d.prop, lit |-> d.colors[i]]]
BlockLiterals(block) == Flatten([i \in 1..Len(block) |-> LiteralsOf(block[i])])
IsHexLiteral(l) == l.lit.form = "hex"

RECURSIVE regex_extract(_, _)
regex_extract(ce, literals) ==
    IF literals = <<>> THEN ce
    ELSE LET color == Head(literals).lit.hex
             counted == [ce EXCEPT !.all_colors = Incr(@, color)]
         IN  regex_extract(
                 IF is_neutral(color) THEN Tallied(counted, "neutrals", color)
                 ELSE Tallied(counted, "primary", color),
                 Tail(literals))

\* the structured pass with a neutral colour tallied in the primary role
process_property_NeutralsAsPrimary(ce, l) ==
    LET color == l.lit.hex
        counted == [ce EXCEPT !.all_colors = Incr(@, color)]
        context == classify_context(l.sel, l.prop)
    IN  IF is_neutral(color) THEN Tallied(counted, "primary", color)
        ELSE IF context # "None" THEN Tallied(counted, context, color)
        ELSE counted

process_property(ce, l) ==
    LET color == l.lit.hex
        counted == [ce EXCEPT !.all_colors = Incr(@, color)]
        context == classify_context(l.sel, l.prop)
    IN  IF is_neutral(color) THEN Tallied(counted, "neutrals", color)
        ELSE IF context # "None" THEN Tallied(counted, context, color)
        ELSE counted

RECURSIVE ProcessRules(_, _)
ProcessRules(ce, literals) ==
    IF literals = <<>> THEN ce
    ELSE ProcessRules(process_property(ce, Head(literals)), Tail(literals))

parse_css(ce, block) ==
    ProcessRules(regex_extract(ce, SelectSeq(BlockLiterals(block), IsHexLiteral)),
                 BlockLiterals(block))

RECURSIVE ParseAll(_, _)
ParseAll(ce, css) == IF css = <<>> THEN ce ELSE ParseAll(parse_css(ce, Head(css)), Tail(css))

\* sorted(items, key, reverse=True): stable, by (count, saturation) or by count alone
KeyGreater(a, b, bySaturation) ==
    \/ a.count > b.count
    \/ bySaturation /\ a.count = b.count /\ get_color_saturation_gt(a.key, b.key)
InsertDesc(sorted, x, bySaturation) ==
    LET before == {i \in 1..Len(sorted) : KeyGreater(x, sorted[i], bySaturation)}
        k == IF before = {} THEN Len(sorted) + 1
             ELSE CHOOSE i \in before : \A j \in before : i <= j
    IN  SubSeq(sorted, 1, k - 1) \o <<x>> \o SubSeq(sorted, k, Len(sorted))
RECURSIVE SortedDesc(_, _)
SortedDesc(tally, bySaturation) ==
    IF tally = <<>> THEN <<>>
    ELSE InsertDesc(SortedDesc(SubSeq(tally, 1, Len(tally) - 1), bySaturation),
                    tally[Len(tally)], bySaturation)

ColorsOf(tally) == [i \in 1..Len(tally) |-> tally[i].key]
IsNotNeutralEntry(e) == ~is_neutral(e.key)
Take(s, n) == SubSeq(s, 1, Min(n, Len(s)))

BestColor(ce, context) ==
    LET sorted_colors == ColorsOf(SortedDesc(ce.context_colors[context], TRUE))
        light_colors == SelectSeq(sorted_colors, IsLight)
        dark_colors == SelectSeq(sorted_colors, IsDark)
    IN  IF sorted_colors = <<>> THEN None
        ELSE IF context # "background" THEN Str(<<sorted_colors[1]>>)
        ELSE IF light_colors # <<>> THEN Str(<<light_colors[1]>>)
        ELSE IF dark_colors # <<>> THEN Str(<<dark_colors[1]>>)
        ELSE Str(<<sorted_colors[1]>>)

\* the analysis without the default of its background field
analyze_colors_NoDefault(ce) ==
    LET sorted_non_neutral == SortedDesc(SelectSeq(ce.all_colors, IsNotNeutralEntry), TRUE)
        primary == BestColor(ce, "primary")
    IN  [ primary |-> IF ~Truthy(primary) /\ sorted_non_neutral # <<>>
                      THEN Str(<<sorted_non_neutral[1].key>>) ELSE primary,
          secondary |-> BestColor(ce, "secondary"),
          background |-> BestColor(ce, "background"),
          accent |-> BestColor(ce, "accent"),
          neutrals |-> Take(ColorsOf(SortedDesc(ce.context_colors.neutrals, FALSE)), 5),
          all_colors |-> Take(SortedDesc(ce.all_colors, FALSE), 20) ]

analyze_colors(ce) ==
    LET sorted_non_neutral == SortedDesc(SelectSeq(ce.all_colors, IsNotNeutralEntry), TRUE)
        primary == BestColor(ce, "primary")
        background == BestColor(ce, "background")
    IN  [ primary |-> IF ~Truthy(primary) /\ sorted_non_neutral # <<>>
                      THEN Str(<<sorted_non_neutral[1].key>>) ELSE primary,
          secondary |-> BestColor(ce, "secondary"),
          background |-> IF ~Truthy(background) THEN Str(<<"#ffffff">>) ELSE background,
          accent |-> BestColor(ce, "accent"),
          neutrals |-> Take(ColorsOf(SortedDesc(ce.context_colors.neutrals, FALSE)), 5),
          all_colors |-> Take(SortedDesc(ce.all_colors, FALSE), 20) ]

---------------------------------------------------------------------------
(* typography.py *)

FontLower(font) ==
    CASE font = "Poppins" -> "poppins"
      [] font = "Lora" -> "lora"
      [] font = "Inter" -> "inter"
      [] font = "Arial" -> "arial"
      [] font = "Georgia" -> "georgia"
      [] font = "FontAwesome" -> "fontawesome"
      [] OTHER -> font
SYSTEM_FONTS == {"system-ui", "roboto", "helvetica", "arial", "sans-serif", "serif", "georgia"}
ICON_FONTS == {"fontawesome", "font awesome", "material icons", "icon", "icons", "fa"}
\* none of the font names used here contains an icon-font word or starts with var(
IsAdmissibleFont(font) == FontLower(font) \notin SYSTEM_FONTS /\ FontLower(font) \notin ICON_FONTS

TypographyExtractor(google_fonts) ==
    [heading_fonts |-> <<>>, body_fonts |-> <<>>, google_fonts |-> google_fonts, all_fonts |-> <<>>]

classify_selector(selector) ==
    IF SelectorHas(selector, {"h1", "h2", "h3", "h4", "h5", "h6", ".heading", ".title", ".headline"})
    THEN "heading" ELSE "body"

\* A font-family value is the sequence of its tokens: a font name, ",", " " or a quote.
\* str.strip(chars) on such a sequence
RECURSIVE StripLeft(_, _)
StripLeft(tokens, chars) ==
    IF tokens # <<>> /\ Head(tokens) \in chars THEN StripLeft(Tail(tokens), chars) ELSE tokens
RECURSIVE StripRight(_, _)
StripRight(tokens, chars) ==
    IF tokens # <<>> /\ tokens[Len(tokens)] \in chars
    THEN StripRight(SubSeq(tokens, 1, Len(tokens) - 1), chars) ELSE tokens
Strip(tokens, chars) == StripRight(StripLeft(tokens, chars), chars)

\* re.split(r',\s*', value): the parts between the commas, the blanks that follow a
\* comma dropped
RECURSIVE SplitCommas(_, _)
SplitCommas(value, part) ==
    IF value = <<>> THEN <<part>>
    ELSE IF Head(value) = "," THEN <<part>> \o SplitCommas(StripLeft(Tail(value), {" "}), <<>>)
    ELSE SplitCommas(Tail(value), Append(part, Head(value)))

\* _parse_font_list: part.strip().strip('"\''), empty parts dropped; in the values used
\* here a font name is one token
parse_font_list(value) ==
    LET parts == SplitCommas(value, <<>>)
        fonts == [i \in 1..Len(parts) |-> Strip(Strip(parts[i], {" "}), {"\"", "'"})]
        named(f) == f # <<>>
        kept == SelectSeq(fonts, named)
    IN  [i \in 1..Len(kept) |-> Head(kept[i])]

\* the loop of _process_font_family over the parsed names
RECURSIVE FontLoop(_, _, _)
FontLoop(te, selector, fonts) ==
    IF fonts = <<>> THEN te
    ELSE LET font == Head(fonts)
             counted == [te EXCEPT !.all_fonts = Incr(@, font)]
         IN  FontLoop(
                 IF ~IsAdmissibleFont(font) THEN te
                 ELSE IF classify_selector(selector) = "heading"
                      THEN [counted EXCEPT !.heading_fonts = Incr(@, font)]
                      ELSE [counted EXCEPT !.body_fonts = Incr(@, font)],
                 selector, Tail(fonts))

process_font_family(te, selector, value) == FontLoop(te, selector, parse_font_list(value))

RECURSIVE ParseFontRules(_, _)
ParseFontRules(te, block) ==
    IF block = <<>> THEN te
    ELSE ParseFontRules(
             IF Head(block).prop = "font-family"
             THEN process_font_family(te, Head(block).sel, Head(block).fonts) ELSE te,
             Tail(block))

RECURSIVE ParseAllFonts(_, _)
ParseAllFonts(te, css) ==
    IF css = <<>> THEN te ELSE ParseAllFonts(ParseFontRules(te, Head(css)), Tail(css))

\* max(tally.items(), key=count)[0]: the first entry with the largest count
MaxEntry(tally) ==
    tally[CHOOSE i \in 1..Len(tally) :
            /\ \A j \in 1..Len(tally) : tally[j].count <= tally[i].count
            /\ \A j \in 1..(i - 1) : tally[j].count < tally[i].count].key

IsAdmissibleEntry(e) == IsAdmissibleFont(e.key)

\* the analysis without the backfill from the combined tally
analyze_fonts_NoBackfill(te, google_list) ==
    LET sorted_all == SortedDesc(SelectSeq(te.all_fonts, IsAdmissibleEntry), FALSE)
        heading1 == IF te.heading_fonts # <<>> THEN Str(<<MaxEntry(te.heading_fonts)>>) ELSE None
        body1 == IF te.body_fonts # <<>> THEN Str(<<MaxEntry(te.body_fonts)>>) ELSE None
    IN  [ heading_font |-> IF ~Truthy(heading1) /\ google_list # <<>>
                           THEN Str(<<google_list[1]>>) ELSE heading1,
          body_font |-> IF ~Truthy(body1) /\ google_list # <<>>
                        THEN Str(<<google_list[IF Len(google_list) > 1 THEN 2 ELSE 1]>>) ELSE body1,
          google_fonts |-> google_list,
          all_fonts |-> Take(sorted_all, 10) ]

\* google_list is list(self.google_fonts): the set in the order this process iterates it
analyze_fonts(te, google_list) ==
    LET sorted_all == SortedDesc(SelectSeq(te.all_fonts, IsAdmissibleEntry), FALSE)
        heading1 == IF te.heading_fonts # <<>> THEN Str(<<MaxEntry(te.heading_fonts)>>) ELSE None
        body1 == IF te.body_fonts # <<>> THEN Str(<<MaxEntry(te.body_fonts)>>) ELSE None
        heading2 == IF ~Truthy(heading1) /\ sorted_all # <<>>
                    THEN Str(<<sorted_all[1].key>>) ELSE heading1
        body2 == IF ~Truthy(body1) /\ sorted_all # <<>>
                 THEN Str(<<sorted_all[IF Len(sorted_all) > 1 THEN 2 ELSE 1].key>>) ELSE body1
    IN  [ heading_font |-> IF ~Truthy(heading2) /\ google_list # <<>>
                           THEN Str(<<google_list[1]>>) ELSE heading2,
          body_font |-> IF ~Truthy(body2) /\ google_list # <<>>
                        THEN Str(<<google_list[IF Len(google_list) > 1 THEN 2 ELSE 1]>>) ELSE body2,
          google_fonts |-> google_list,
          all_fonts |-> Take(sorted_all, 10) ]

\* the orders in which a set can be listed
Orders(S) == {q \in [1..Cardinality(S) -> S] : \A i, j \in 1..Cardinality(S) : q[i] = q[j] => i = j}

---------------------------------------------------------------------------
(* llm_verify.py: extract_with_llm.  logo_result and typo_result are the    *)
(* parsed JSON objects of the first and third call (None when the call or   *)
(* the parse failed), colors_found the parsed objects of the colour calls.  *)

IconUrl == <<"https://cdn.example/", "FAVICON", ".ico">>
LogoSvgUrl == <<"https://cdn.example/", "logo", ".SVG">>
LogoPngUrl == <<"https://cdn.example/", "logo", ".png">>

LogoResults ==
    { None,
      [logo_url |-> Str(LogoSvgUrl), logo_type |-> Str(<<"svg">>), confidence |-> Num(90000)],
      [logo_url |-> Str(LogoPngUrl), logo_type |-> Str(<<"png">>)],
      [logo_url |-> Str(IconUrl), confidence |-> Num(80000)],
      [logo_url |-> None, logo_type |-> Str(<<"inline_svg">>), confidence |-> Num(70000)],
      [logo_url |-> Num(1), confidence |-> Num(50000)],
      [logo_url |-> Str(LogoPngUrl), logo_type |-> Str(<<"png">>), confidence |-> Num(8500000)] }

ColorsFound ==
    { <<>>,
      << [primary_color |-> Str(<<"#0a84ff">>), secondary_color |-> None,
          background_color |-> Str(<<"#101010">>)] >>,
      << [primary_color |-> None, secondary_color |-> Str(<<"#FF9F0A">>)],
         [primary_color |-> Str(<<"#34c759">>), secondary_color |-> Str(<<"#5856d6">>)] >> }

\* a JSON answer that is a non-empty array, not an object: json.loads returns a list
JsonArray == [array |-> <<Str(<<"Inter">>)>>]
IsJsonArray(v) == "array" \in DOMAIN v

TypoResults ==
    { None, JsonArray,
      [heading_font |-> Str(<<"Inter">>), body_font |-> None, google_fonts |-> <<"Inter">>],
      [heading_font |-> Str(<<>>), body_font |-> Str(<<"Georgia">>)] }

\* the first truthy value of the field over the colour answers, else None
RECURSIVE MergedColor(_, _)
MergedColor(colors_found, field) ==
    IF colors_found = <<>> THEN None
    ELSE IF Truthy(Get(Head(colors_found), field, None)) THEN Head(colors_found)[field]
    ELSE MergedColor(Tail(colors_found), field)

extract_with_llm(api_key, html_long, logo_result, colors_found, typo_result) ==
    IF ~api_key THEN [success |-> FALSE, error |-> "No API key"]
    ELSE IF ~html_long THEN [success |-> FALSE, error |-> "Insufficient HTML"]
    \* .get on a list raises AttributeError inside the try: the except clause answers
    ELSE IF \/ IsJsonArray(logo_result) \/ IsJsonArray(typo_result)
            \/ \E i \in 1..Len(colors_found) : IsJsonArray(colors_found[i])
    THEN [success |-> FALSE, error |-> "AttributeError"]
    ELSE [ success |-> TRUE,
           logo_url |-> IF logo_result # None THEN Get(logo_result, "logo_url", None) ELSE None,
           logo_type |-> IF logo_result # None THEN Get(logo_result, "logo_type", None) ELSE None,
           logo_confidence |-> IF logo_result # None THEN Get(logo_result, "confidence", Num(0))
                               ELSE Num(0),
           primary_color |-> MergedColor(colors_found, "primary_color"),
           secondary_color |-> MergedColor(colors_found, "secondary_color"),
           background_color |-> MergedColor(colors_found, "background_color"),
           heading_font |-> IF typo_result # None THEN Get(typo_result, "heading_font", None) ELSE None,
           body_font |-> IF typo_result # None THEN Get(typo_result, "body_font", None) ELSE None,
           google_fonts |-> IF typo_result # None THEN Get(typo_result, "google_fonts", <<>>) ELSE <<>> ]

---------------------------------------------------------------------------
(* routes.py: the merge functions *)

SourceTag(prog, llm, otherwise) ==
    IF Truthy(prog) THEN "programmatic" ELSE IF Truthy(llm) THEN "llm" ELSE otherwise

verify_and_merge_colors(prog, llm) ==
    LET llm_colors == [ primary |-> Get(llm, "primary_color", None),
                        secondary |-> Get(llm, "secondary_color", None),
                        background |-> Get(llm, "background_color", None) ]
    IN  [ primary |-> Or(prog.primary, llm_colors.primary),
          secondary |-> Or(prog.secondary, llm_colors.secondary),
          background |-> Or(Or(prog.background, llm_colors.background), Str(<<"#ffffff">>)),
          accent |-> prog.accent,
          neutrals |-> prog.neutrals,
          all_colors |-> prog.all_colors,
          primary_source |-> SourceTag(prog.primary, llm_colors.primary, "none"),
          secondary_source |-> SourceTag(prog.secondary, llm_colors.secondary, "none"),
          background_source |-> SourceTag(prog.background, llm_colors.background, "default") ]

verify_and_merge_typography(prog, llm) ==
    LET llm_typo == [ heading_font |-> Get(llm, "heading_font", None),
                      body_font |-> Get(llm, "body_font", None) ]
    IN  [ heading_font |-> Or(prog.heading_font, llm_typo.heading_font),
          body_font |-> Or(prog.body_font, llm_typo.body_font),
          google_fonts |-> prog.google_fonts,
          all_fonts |-> prog.all_fonts,
          heading_source |-> SourceTag(prog.heading_font, llm_typo.heading_font, "none"),
          body_source |-> SourceTag(prog.body_font, llm_typo.body_font, "none") ]

MergedNotFound ==
    [ found |-> FALSE, type |-> "None", svg |-> None, url |-> None, color |-> None,
      confidence |-> 0, source |-> "none" ]

HintLogo(llm, llm_logo_url) ==
    [ found |-> TRUE,
      type |-> IF StrContains(StrLower(llm_logo_url.str), ".svg") THEN "svg" ELSE "image",
      svg |-> None, url |-> llm_logo_url, color |-> None,
      confidence |-> Get(llm, "logo_confidence", Num(60000)),
      source |-> "llm" ]

Returns(value) == [raised |-> FALSE, value |-> value]
Raises == [raised |-> TRUE, value |-> None]

Adequate(prog) == prog.found /\ prog.confidence > 30000

\* llm_logo_url.lower() raises AttributeError when the value is not a string
verify_and_merge_logo(prog, llm) ==
    LET llm_logo_url == IF llm.success THEN Get(llm, "logo_url", None) ELSE None
    IN  IF Adequate(prog) THEN Returns(prog)
        ELSE IF Truthy(llm_logo_url) /\ ~IsStr(llm_logo_url) THEN Raises
        ELSE IF Truthy(llm_logo_url) /\ ~StrContains(StrLower(llm_logo_url.str), "favicon")
        THEN Returns(HintLogo(llm, llm_logo_url))
        ELSE IF prog.found THEN Returns(prog)
        ELSE Returns(MergedNotFound)

---------------------------------------------------------------------------
(* routes.py: extract_design_system, from the fetch to the response *)

\* six paths of 300 characters: the markup re-scan scores it above its 0.6 cap
Emblem == SvgEl(<<Run("e", 300), Run("f", 300), Run("e", 300), Run("f", 300), Run("e", 300),
                  Run("f", 300)>>, 200, 50, 10, 90, Rgb(10, 132, 255), CssNone)

AnchorPage(el, extracted) ==
    [ html |-> TRUE, extracted |-> extracted,
      anchors |-> << [href |-> "/", where |-> "navbar", svgs |-> <<el>>, imgs |-> <<>>] >>,
      loose |-> <<>>, himgs |-> <<>>, screenshot |-> None ]
BarePage ==
    [ html |-> TRUE, extracted |-> TRUE, anchors |-> <<>>, loose |-> <<>>, himgs |-> <<>>,
      screenshot |-> None ]

PipelinePages ==
    { NoHtml, BarePage, AnchorPage(Wordmark(30), TRUE), AnchorPage(Emblem, FALSE),
      AnchorPage(Rich, FALSE), AnchorPage(Icon, FALSE) }

GoogleFontLinks == { {}, {"Inter", "Lora"} }

\* what fetch_async can return for the page: without HTML there is no soup and no CSS;
\* the HTML of a page with a brand anchor has 200 characters or more, that of the bare
\* page has not
FetchResults(p) ==
    IF p.html
    THEN [css : CssContents, google_fonts : GoogleFontLinks, html_long : {p.anchors # <<>>}]
    ELSE { [css |-> <<>>, google_fonts |-> {}, html_long |-> FALSE] }

\* the gate of step 3, with > in place of >=
GateStrict(logo_, colors, typo) ==
    /\ (IF logo_.found THEN logo_.confidence ELSE 0) > 60000
    /\ Truthy(colors.primary)
    /\ Truthy(typo.heading_font)

\* prog_logo_conf >= 0.6 and has_good_colors and has_good_typo
Gate(logo_, colors, typo) ==
    /\ (IF logo_.found THEN logo_.confidence ELSE 0) >= 60000
    /\ Truthy(colors.primary)
    /\ Truthy(typo.heading_font)

Init ==
    /\ page \in PipelinePages
    /\ extractor = None
    /\ pc = "tier1"
    /\ logo = None
    /\ evaluated = {}
    /\ result = None
    /\ request = None
    /\ step = "fetch"
    /\ color_extractor = None
    /\ prog_colors = None
    /\ prog_typo = None
    /\ prog_logo = None
    /\ skip_llm = FALSE
    /\ hint_requests = 0
    /\ logo_reply = None
    /\ llm_result = None
    /\ final_colors = None
    /\ final_typo = None
    /\ final_logo = None
    /\ status = "running"
    /\ credential = None
    /\ colors_reply = None
    /\ typo_reply = None
    /\ hex_input = None
    /\ normalized = None
    /\ css_contents = None
    /\ color_result = None

Fetch ==
    /\ step = "fetch"
    /\ request' \in FetchResults(page)
    /\ step' = "colors"
    /\ UNCHANGED <<colorVars, replyVars, logoVars, color_extractor, prog_colors, prog_typo, prog_logo, skip_llm,
                   hint_requests, logo_reply, llm_result, final_colors, final_typo, final_logo, status>>

Colors ==
    /\ step = "colors"
    /\ color_extractor' = ParseAll(ColorExtractor, request.css)
    /\ prog_colors' = analyze_colors(color_extractor')
    /\ step' = "typography"
    /\ UNCHANGED <<colorVars, replyVars, logoVars, request, prog_typo, prog_logo, skip_llm, hint_requests, logo_reply,
                   llm_result, final_colors, final_typo, final_logo, status>>

Typography ==
    /\ step = "typography"
    /\ \E google_list \in Orders(request.google_fonts) :
          prog_typo' = analyze_fonts(
                           ParseAllFonts(TypographyExtractor(request.google_fonts), request.css),
                           google_list)
    /\ step' = "logo"
    /\ UNCHANGED <<colorVars, replyVars, logoVars, request, color_extractor, prog_colors, prog_logo, skip_llm,
                   hint_requests, logo_reply, llm_result, final_colors, final_typo, final_logo, status>>

Logo ==
    /\ step = "logo"
    /\ extractor' = LogoExtractor(fetch_async(page))
    /\ LET st == RunExtract(extractor', ExtractStart)
       IN  /\ pc' = st.pc
           /\ logo' = st.logo
           /\ evaluated' = st.evaluated
           /\ result' = st.result
           /\ prog_logo' = st.result
    /\ step' = "gate"
    /\ UNCHANGED <<colorVars, replyVars, page, request, color_extractor, prog_colors, prog_typo, skip_llm,
                   hint_requests, logo_reply, llm_result, final_colors, final_typo, final_logo, status>>

SkipHint ==
    /\ step = "gate"
    /\ Gate(prog_logo, prog_colors, prog_typo)
    /\ skip_llm' = TRUE
    /\ llm_result' = [success |-> FALSE]
    /\ step' = "merge"
    /\ UNCHANGED <<colorVars, replyVars, logoVars, request, color_extractor, prog_colors, prog_typo, prog_logo,
                   hint_requests, logo_reply, final_colors, final_typo, final_logo, status>>

RequestHint ==
    /\ step = "gate"
    /\ ~Gate(prog_logo, prog_colors, prog_typo)
    /\ \E api_key \in BOOLEAN, answer \in LogoResults, colors_found \in ColorsFound,
          typo_result \in TypoResults :
          /\ credential' = api_key
          /\ logo_reply' = IF api_key /\ request.html_long THEN answer ELSE None
          /\ colors_reply' = IF api_key /\ request.html_long THEN colors_found ELSE <<>>
          /\ typo_reply' = IF api_key /\ request.html_long THEN typo_result ELSE None
          /\ llm_result' = extract_with_llm(api_key, request.html_long, answer, colors_found,
                                            typo_result)
    /\ hint_requests' = hint_requests + 1
    /\ step' = "merge"
    /\ UNCHANGED <<colorVars, logoVars, request, color_extractor, prog_colors, prog_typo, prog_logo,
                   skip_llm, final_colors, final_typo, final_logo, status>>

Merge ==
    /\ step = "merge"
    /\ final_colors' = verify_and_merge_colors(prog_colors, llm_result)
    /\ final_typo' = verify_and_merge_typography(prog_typo, llm_result)
    /\ LET merged == verify_and_merge_logo(prog_logo, llm_result)
       IN  /\ final_logo' = merged.value
           /\ status' = IF merged.raised THEN "error" ELSE "ok"
    /\ step' = "done"
    /\ UNCHANGED <<colorVars, replyVars, logoVars, request, color_extractor, prog_colors, prog_typo, prog_logo,
                   skip_llm, hint_requests, logo_reply, llm_result>>

Next == Fetch \/ Colors \/ Typography \/ Logo \/ SkipHint \/ RequestHint \/ Merge

Spec == Init /\ [][Next]_vars

---------------------------------------------------------------------------
(* Properties of extract_design_system *)

Gated == step \in {"merge", "done"}
Responded == step = "done"

\* the programmatic bundle is adequate: logo found with confidence >= 0.6, primary
\* colour and heading font non-null
ProgrammaticAdequate ==
    /\ prog_logo.found
    /\ prog_logo.confidence >= 60000
    /\ prog_colors.primary # None
    /\ prog_typo.heading_font # None

\* C6: the hint is requested only once colour, typography and logo extraction have
\* completed; it is requested if and only if the programmatic bundle is not adequate;
\* when the bundle is adequate no request is ever made and the merge works on the
\* empty failure hint.
C6_HintRequestedIffInadequate ==
    /\ hint_requests \in {0, 1}
    /\ (hint_requests > 0 => prog_colors # None /\ prog_typo # None /\ prog_logo # None)
    /\ (step \notin {"merge", "done"} => hint_requests = 0)
    /\ (Gated => (hint_requests = 1 <=> ~ProgrammaticAdequate))
    /\ (Gated /\ ProgrammaticAdequate => hint_requests = 0 /\ llm_result = [success |-> FALSE])
    /\ (Responded /\ ProgrammaticAdequate =>
            /\ status = "ok"
            /\ final_colors = verify_and_merge_colors(prog_colors, [success |-> FALSE])
            /\ final_typo = verify_and_merge_typography(prog_typo, [success |-> FALSE])
            /\ final_logo = prog_logo)

\* C6 witness: the response was produced without a hint for a logo of confidence
\* exactly 0.6
C6_Witness ==
    /\ Responded
    /\ skip_llm
    /\ hint_requests = 0
    /\ prog_logo.confidence = 60000

\* the merge rule of the claim: programmatic if non-null, else hint if non-null, else null
ClaimedValue(prog, hint) == IF prog # None THEN prog ELSE IF hint # None THEN hint ELSE None
ClaimedTag(prog, hint) ==
    IF prog # None THEN "programmatic" ELSE IF hint # None THEN "llm" ELSE "none"
Hint(field) == Get(llm_result, field, None)

\* C7 (as claimed): each of primary colour, secondary colour, heading font and body
\* font is the programmatic value when non-null, else the hint's when non-null, else
\* null, and its provenance tag is 'programmatic', 'llm' or 'none' in those cases.
C7_PerFieldMergeAndTag ==
    Responded =>
        /\ final_colors.primary = ClaimedValue(prog_colors.primary, Hint("primary_color"))
        /\ final_colors.primary_source = ClaimedTag(prog_colors.primary, Hint("primary_color"))
        /\ final_colors.secondary = ClaimedValue(prog_colors.secondary, Hint("secondary_color"))
        /\ final_colors.secondary_source
               = ClaimedTag(prog_colors.secondary, Hint("secondary_color"))
        /\ final_typo.heading_font = ClaimedValue(prog_typo.heading_font, Hint("heading_font"))
        /\ final_typo.heading_source = ClaimedTag(prog_typo.heading_font, Hint("heading_font"))
        /\ final_typo.body_font = ClaimedValue(prog_typo.body_font, Hint("body_font"))
        /\ final_typo.body_source = ClaimedTag(prog_typo.body_font, Hint("body_font"))

\* the CSS gave a background candidate: the background tally is not empty
CssBackgroundCandidate == color_extractor.context_colors.background # <<>>

\* C8 (as claimed): without a background candidate in the CSS the merged background is
\* the hint's with provenance 'llm' when the hint supplies one, and '#ffffff' with
\* provenance 'default' when it does not; provenance is 'programmatic' only when a
\* background candidate was extracted from the CSS.
C8_BackgroundProvenance ==
    Responded =>
        /\ (~CssBackgroundCandidate /\ Hint("background_color") # None =>
                /\ final_colors.background = Hint("background_color")
                /\ final_colors.background_source = "llm")
        /\ (~CssBackgroundCandidate /\ Hint("background_color") = None =>
                /\ final_colors.background = Str(<<"#ffffff">>)
                /\ final_colors.background_source = "default")
        /\ (final_colors.background_source = "programmatic" => CssBackgroundCandidate)

\* the hint's logo URL, when the hint succeeded
HintLogoUrl == IF llm_result.success THEN Hint("logo_url") ELSE None
\* the URL is present and does not contain 'favicon' (in any letter case)
HintLogoUrlUsable ==
    /\ Truthy(HintLogoUrl)
    /\ (IsStr(HintLogoUrl) => ~StrContains(StrLower(HintLogoUrl.str), "favicon"))

\* C9 (as claimed): verify_and_merge_logo returns for every programmatic descriptor and
\* hint (1) the programmatic descriptor when found with confidence > 0.3, (2) otherwise
\* a descriptor built from the hint's URL when the hint succeeded and the URL is present
\* and without 'favicon', (3) otherwise the programmatic descriptor when found,
\* (4) otherwise the not-found descriptor with confidence 0 and source 'none'.
C9_LogoMergeCases ==
    Responded =>
        /\ status = "ok"
        /\ IF prog_logo.found /\ prog_logo.confidence > 30000 THEN final_logo = prog_logo
           ELSE IF HintLogoUrlUsable
                THEN final_logo.found /\ final_logo.source = "llm" /\ final_logo.url = HintLogoUrl
           ELSE IF prog_logo.found THEN final_logo = prog_logo
           ELSE ~final_logo.found /\ final_logo.confidence = 0 /\ final_logo.source = "none"

\* C10 (as claimed): a merged logo adopted from the hint carries the confidence the
\* logo answer stated, and 0.6 when the answer has a logo URL and states no confidence.
C10_AdoptedHintConfidence ==
    (Responded /\ status = "ok" /\ final_logo.source = "llm") =>
        final_logo.confidence
            = (IF "confidence" \in DOMAIN logo_reply THEN logo_reply.confidence ELSE Num(60000))

\* the confidence of a merged logo: the hint's stated number when adopted from the hint
MergedConfidence(l) == IF l.source = "llm" THEN l.confidence.num ELSE l.confidence

\* C11 (as claimed): the confidence of the logo in the final merged descriptor lies in
\* [0, 1] on every path: the five programmatic tiers, the not-found descriptor and a
\* logo adopted from the hint, whatever confidence the hint reported.
C11_MergedConfidenceInUnitInterval ==
    (Responded /\ status = "ok") =>
        /\ MergedConfidence(final_logo) >= 0
        /\ MergedConfidence(final_logo) <= 100000

\* the hint is unavailable: no credential, or every external call failed (timed out,
\* errored, or returned content that does not parse)
HintUnavailable ==
    \/ ~credential
    \/ logo_reply = None /\ colors_reply = <<>> /\ typo_reply = None

\* C12 (as claimed): extract_with_llm returns an object with a success flag, and the
\* flag is false whenever the hint is unavailable.
C12_UnavailableHintFlaggedFailure ==
    hint_requests = 1 =>
        /\ "success" \in DOMAIN llm_result
        /\ (HintUnavailable => ~llm_result.success)

\* C13 (as claimed): whatever hint object is handed over, the three merge functions
\* complete and the request does not fail; with a hint flagged as failed the merged
\* colours, fonts and logo are the programmatic ones.
C13_MergeNeverFails ==
    Responded =>
        /\ status = "ok"
        /\ (~llm_result.success =>
                /\ final_colors.primary = prog_colors.primary
                /\ final_colors.secondary = prog_colors.secondary
                /\ final_colors.background = prog_colors.background
                /\ final_typo.heading_font = prog_typo.heading_font
                /\ final_typo.body_font = prog_typo.body_font
                /\ final_logo.found = prog_logo.found
                /\ (prog_logo.found => final_logo = prog_logo))

\* the fetch returned no HTML at all
NoHtmlFetched == request # None /\ ~page.html

\* C14 (as claimed): when the fetch returns no HTML no classifier runs and the request
\* ends as a failure, not as a descriptor.
C14_NoHtmlIsRequestFailure ==
    NoHtmlFetched =>
        /\ prog_colors = None
        /\ prog_typo = None
        /\ prog_logo = None
        /\ (Responded => status = "error")

---------------------------------------------------------------------------
(* colors.py: normalize_hex.  Here a text is the sequence of its characters. *)

MaxHexLen == 8

HexDigits == {"0", "1", "2", "3", "4", "5", "6", "7", "8", "9", "a", "b", "c", "d", "e", "f"}
Sentinel == <<"#", "0", "0", "0", "0", "0", "0">>

\* str.lower() on one character
LowerChar(c) ==
    CASE c = "A" -> "a" [] c = "B" -> "b" [] c = "C" -> "c" [] c = "D" -> "d"
      [] c = "E" -> "e" [] c = "F" -> "f" [] c = "G" -> "g"
      [] OTHER -> c
Lower(s) == [i \in 1..Len(s) |-> LowerChar(s[i])]

Whitespace == {" "}
RECURSIVE LStrip(_, _)
LStrip(s, chars) == IF s # <<>> /\ Head(s) \in chars THEN LStrip(Tail(s), chars) ELSE s
RECURSIVE RStrip(_, _)
RStrip(s, chars) ==
    IF s # <<>> /\ s[Len(s)] \in chars THEN RStrip(SubSeq(s, 1, Len(s) - 1), chars) ELSE s
\* "".join([c*2 for c in s])
RECURSIVE Doubled(_)
Doubled(s) == IF s = <<>> THEN <<>> ELSE <<Head(s), Head(s)>> \o Doubled(Tail(s))

normalize_hex(hex_color) ==
    IF ~Truthy(hex_color) \/ ~IsStr(hex_color) THEN Sentinel
    ELSE LET h == LStrip(RStrip(LStrip(Lower(hex_color.str), Whitespace), Whitespace), {"#"})
         IN  IF Len(h) = 3 THEN <<"#">> \o Doubled(h)
             ELSE IF Len(h) = 4 THEN <<"#">> \o Doubled(SubSeq(h, 1, 3))
             ELSE IF Len(h) = 8 THEN <<"#">> \o SubSeq(h, 1, 6)
             ELSE IF Len(h) # 6 THEN Sentinel
             ELSE <<"#">> \o h

\* arguments: None, a number, the empty text, and texts made of an optional blank and
\* '#', a body of upper-case hex digits, decimal digits and a letter that is no hex
\* digit, and an optional trailing blank
HexAlphabet == {"F", "3", "g"}
HexBodies == UNION { [1..n -> HexAlphabet] : n \in 0..MaxHexLen }
HexInputs ==
    {None, Num(255)} \cup
    { Str(pre \o body \o suf) : pre \in {<<>>, <<"#">>, <<" ", "#">>}, body \in HexBodies,
                                suf \in {<<>>, <<" ">>} }

---------------------------------------------------------------------------
(* colors.py: normalize_hex and ColorExtractor.extract called on their own *)

MaxBlocks == 3

\* the name the colour tables use for a normalised text
HexName(chars) ==
    CASE chars = <<"#", "f", "f", "5", "7", "3", "3">> -> "#ff5733"
      [] chars = <<"#", "3", "3", "f", "f", "5", "7">> -> "#33ff57"
      [] chars = <<"#", "1", "a", "1", "a", "e", "e">> -> "#1a1aee"
      [] chars = <<"#", "f", "f", "f", "f", "f", "f">> -> "#ffffff"
      [] OTHER -> "#000000"
\* a hex literal as written in the CSS: _extract_colors_from_value normalises the match
HexLit(chars) == Lit(HexName(normalize_hex(Str(chars))), "hex")

\* .btn{background:#FF5733} a:hover{color:#1a1aee}
ButtonAndHoverCss ==
    << Decl(<<".btn">>, "background", <<HexLit(<<"#", "F", "F", "5", "7", "3", "3">>)>>, <<>>),
       Decl(<<"a:hover">>, "color", <<HexLit(<<"#", "1", "a", "1", "a", "e", "e">>)>>, <<>>) >>

\* CSS text blocks: the one above, single rules (two of them with colours of equal
\* saturation, one with a white and one with a near-black page background), and the
\* empty text
ExampleBlocks ==
    { ButtonAndHoverCss,
      << Decl(<<".card">>, "color", <<HexLit(<<"#", "3", "3", "F", "F", "5", "7">>)>>, <<>>) >>,
      << Decl(<<".hero">>, "color", <<HexLit(<<"#", "F", "F", "5", "7", "3", "3">>)>>, <<>>) >>,
      << Decl(<<"body">>, "background-color", <<Lit("#a8dadc", "hex")>>, <<>>) >>,
      << Decl(<<"body">>, "background", <<HexLit(<<"#", "F", "F", "F">>)>>, <<>>) >>,
      << Decl(<<"main">>, "background", <<Lit("#1d3557", "hsl")>>, <<>>) >>,
      << Decl(<<"html">>, "background", <<Lit("#222222", "hex")>>, <<>>) >>,
      <<>> }

CssLists == UNION { [1..n -> ExampleBlocks] : n \in 0..MaxBlocks }

InitColors ==
    /\ page = NoHtml
    /\ extractor = None
    /\ pc = "tier1"
    /\ logo = None
    /\ evaluated = {}
    /\ result = None
    /\ request = None
    /\ color_extractor = None
    /\ prog_colors = None
    /\ prog_typo = None
    /\ prog_logo = None
    /\ skip_llm = FALSE
    /\ hint_requests = 0
    /\ logo_reply = None
    /\ llm_result = None
    /\ final_colors = None
    /\ final_typo = None
    /\ final_logo = None
    /\ status = "running"
    /\ credential = None
    /\ colors_reply = None
    /\ typo_reply = None
    /\ normalized = None
    /\ color_result = None
    /\ \/ step = "normalize_hex" /\ hex_input \in HexInputs /\ css_contents = <<>>
       \/ step = "extract_colors" /\ hex_input = None /\ css_contents \in CssLists

NormalizeHex ==
    /\ step = "normalize_hex"
    /\ normalized' = normalize_hex(hex_input)
    /\ step' = "returned_hex"
    /\ UNCHANGED <<logoVars, replyVars, request, color_extractor, prog_colors, prog_typo,
                   prog_logo, skip_llm, hint_requests, logo_reply, llm_result, final_colors,
                   final_typo, final_logo, status, hex_input, css_contents, color_result>>

\* ColorExtractor(css_contents).extract(): an empty text is skipped
ExtractColors ==
    /\ step = "extract_colors"
    /\ color_extractor' = ParseAll(ColorExtractor, css_contents)
    /\ color_result' = analyze_colors(color_extractor')
    /\ step' = "returned_colors"
    /\ UNCHANGED <<logoVars, replyVars, request, prog_colors, prog_typo, prog_logo, skip_llm,
                   hint_requests, logo_reply, llm_result, final_colors, final_typo,
                   final_logo, status, hex_input, normalized, css_contents>>

NextColors == NormalizeHex \/ ExtractColors

SpecColors == InitColors /\ [][NextColors]_vars

---------------------------------------------------------------------------
(* typography.py: TypographyExtractor(css_contents, html).extract() called  *)
(* on its own.  request holds the CSS blocks and the font names linked in   *)
(* the markup, prog_typo the returned result.                               *)

\* h1 { font-family: "Inter", Arial, sans-serif }
InterOnH1 ==
    Decl(<<"h1">>, "font-family", <<>>,
         <<"\"", "Inter", "\"", ",", " ", "Arial", ",", " ", "sans-serif">>)

\* CSS text blocks with one font-family rule each, and the empty text
FontBlocks ==
    { << InterOnH1 >>,
      << Decl(<<"h1">>, "font-family", <<>>, <<"Poppins", ",", " ", "Arial">>) >>,
      << Decl(<<"body">>, "font-family", <<>>, <<"Lora">>) >>,
      << Decl(<<"p">>, "font-family", <<>>, <<"'", "Inter", "'", ",", "Georgia">>) >>,
      << Decl(<<".fa">>, "font-family", <<>>, <<"FontAwesome">>) >>,
      <<>> }

FontCssLists == UNION { [1..n -> FontBlocks] : n \in 0..MaxBlocks }

InitFonts ==
    /\ page = NoHtml
    /\ extractor = None
    /\ pc = "tier1"
    /\ logo = None
    /\ evaluated = {}
    /\ result = None
    /\ request \in [css : FontCssLists, google_fonts : GoogleFontLinks, html_long : {FALSE}]
    /\ step = "extract_fonts"
    /\ color_extractor = None
    /\ prog_colors = None
    /\ prog_typo = None
    /\ prog_logo = None
    /\ skip_llm = FALSE
    /\ hint_requests = 0
    /\ logo_reply = None
    /\ llm_result = None
    /\ final_colors = None
    /\ final_typo = None
    /\ final_logo = None
    /\ status = "running"
    /\ credential = None
    /\ colors_reply = None
    /\ typo_reply = None
    /\ hex_input = None
    /\ normalized = None
    /\ css_contents = <<>>
    /\ color_result = None

\* TypographyExtractor.extract(): the linked names are listed in some order
ExtractFonts ==
    /\ step = "extract_fonts"
    /\ \E google_list \in Orders(request.google_fonts) :
          prog_typo' = analyze_fonts(
                           ParseAllFonts(TypographyExtractor(request.google_fonts), request.css),
                           google_list)
    /\ step' = "returned_fonts"
    /\ UNCHANGED <<colorVars, replyVars, logoVars, request, color_extractor, prog_colors,
                   prog_logo, skip_llm, hint_requests, logo_reply, llm_result, final_colors,
                   final_typo, final_logo, status>>

NextFonts == ExtractFonts

SpecFonts == InitFonts /\ [][NextFonts]_vars

---------------------------------------------------------------------------
(* Properties of normalize_hex and ColorExtractor.extract *)

IsSixDigitHex(t) == Len(t) = 7 /\ t[1] = "#" /\ \A i \in 2..7 : t[i] \in HexDigits

\* the digits of a text argument: lower-cased, outer blanks and leading '#' removed
HexBody(v) == LStrip(RStrip(LStrip(Lower(v.str), Whitespace), Whitespace), {"#"})
\* a valid hex literal: 3, 4, 6 or 8 hexadecimal digits
IsHexLiteralText(v) ==
    /\ IsStr(v)
    /\ Len(HexBody(v)) \in {3, 4, 6, 8}
    /\ \A i \in 1..Len(HexBody(v)) : HexBody(v)[i] \in HexDigits

\* C15 (as claimed): normalize_hex returns '#' followed by exactly six lowercase
\* hexadecimal digits for every argument; a valid 3- or 4-digit literal is expanded
\* digit by digit, a 6-digit one kept, an 8-digit one cut to its first six digits,
\* and every other argument yields '#000000'.
C15_NormalizeHexSixDigitsOrSentinel ==
    step = "returned_hex" =>
        /\ IsSixDigitHex(normalized)
        /\ IF IsHexLiteralText(hex_input)
           THEN LET h == HexBody(hex_input)
                IN  IF Len(h) \in {3, 4}
                    THEN \A i \in 1..3 : normalized[2 * i] = h[i] /\ normalized[2 * i + 1] = h[i]
                    ELSE \A i \in 1..6 : normalized[i + 1] = h[i]
           ELSE normalized = Sentinel

\* the characters of the colour texts that occur in stylesheets and hints
ColorChars(name) ==
    CASE name = "#e63946" -> <<"#", "e", "6", "3", "9", "4", "6">>
      [] name = "#a8dadc" -> <<"#", "a", "8", "d", "a", "d", "c">>
      [] name = "#1d3557" -> <<"#", "1", "d", "3", "5", "5", "7">>
      [] name = "#ffffff" -> <<"#", "f", "f", "f", "f", "f", "f">>
      [] name = "#0a84ff" -> <<"#", "0", "a", "8", "4", "f", "f">>
      [] name = "#101010" -> <<"#", "1", "0", "1", "0", "1", "0">>
      [] name = "#FF9F0A" -> <<"#", "F", "F", "9", "F", "0", "A">>
      [] name = "#34c759" -> <<"#", "3", "4", "c", "7", "5", "9">>
      [] name = "#5856d6" -> <<"#", "5", "8", "5", "6", "d", "6">>

\* a colour field of the descriptor holds '#' and six lowercase hex digits
IsHexColorField(v) == IsStr(v) /\ Len(v.str) = 1 /\ IsSixDigitHex(ColorChars(v.str[1]))
\* a logo tint written by rgb_to_hex as #rrggbb
IsHexTint(c) == c.k = "hex" /\ c.r \in 0..255 /\ c.g \in 0..255 /\ c.b \in 0..255

\* C16 (as claimed): every non-null colour of the final descriptor (merged primary,
\* secondary, background, accent and the logo tint) is '#' followed by six lowercase
\* hex digits, colours adopted from the hint and resolved tints included.
C16_FinalColoursAreSixDigitHex ==
    (Responded /\ status = "ok") =>
        /\ \A f \in {"primary", "secondary", "background", "accent"} :
               final_colors[f] # None => IsHexColorField(final_colors[f])
        /\ (final_logo.color # None => IsHexTint(final_logo.color))

\* the colours tallied in a role
TalliedIn(context) ==
    {color_extractor.context_colors[context][i].key :
        i \in 1..Len(color_extractor.context_colors[context])}

\* C17 (as claimed): for .btn{background:#FF5733} a:hover{color:#1a1aee} extract()
\* returns primary '#ff5733' and accent '#1a1aee'; whenever that block is among the
\* CSS, the a:hover colour is tallied in the accent role and the button background in
\* the primary role.
C17_ButtonPrimaryHoverAccent ==
    step = "returned_colors" =>
        /\ (css_contents = <<ButtonAndHoverCss>> =>
                /\ color_result.primary = Str(<<"#ff5733">>)
                /\ color_result.accent = Str(<<"#1a1aee">>))
        /\ ((\E i \in 1..Len(css_contents) : css_contents[i] = ButtonAndHoverCss) =>
                /\ "#ff5733" \in TalliedIn("primary")
                /\ "#1a1aee" \in TalliedIn("accent"))

\* ColorExtractor(css).extract() on the blocks listed in the order q
ExtractPermuted(css, q) ==
    analyze_colors(ParseAll(ColorExtractor, [i \in 1..Len(css) |-> css[q[i]]]))

\* C19 (as claimed): every permutation of the list of CSS blocks yields the same
\* extract() result: primary, secondary, background, accent, neutrals and all_colors.
C19_BlockOrderIrrelevant ==
    step = "returned_colors" =>
        \A q \in Orders(1..Len(css_contents)) : ExtractPermuted(css_contents, q) = color_result

\* the fetch gave nothing: no CSS block, no font link in the head markup, no geometry
\* record, no parsed document, no screenshot
EmptyInputs ==
    /\ request # None
    /\ request.css = <<>>
    /\ request.google_fonts = {}
    /\ ~page.html
    /\ page.anchors = <<>> /\ page.loose = <<>> /\ page.himgs = <<>>
    /\ page.screenshot = None

\* C18: on empty inputs the classifiers return primary, secondary and accent null,
\* background '#ffffff', heading and body font null and the not-found logo with
\* confidence 0; and whatever the CSS, the background is '#ffffff' when no background
\* candidate was tallied.
C18_EmptyInputsAndDefaultBackground ==
    /\ (EmptyInputs /\ prog_colors # None =>
            /\ prog_colors.primary = None
            /\ prog_colors.secondary = None
            /\ prog_colors.accent = None
            /\ prog_colors.background = Str(<<"#ffffff">>))
    /\ (EmptyInputs /\ prog_typo # None =>
            prog_typo.heading_font = None /\ prog_typo.body_font = None)
    /\ (EmptyInputs /\ prog_logo # None =>
            /\ ~prog_logo.found
            /\ prog_logo.confidence = 0
            /\ prog_logo = NotFound)
    /\ (prog_colors # None /\ ~CssBackgroundCandidate =>
            prog_colors.background = Str(<<"#ffffff">>))

\* C18 witness: the three classifiers have returned on empty inputs
C18_Witness ==
    /\ EmptyInputs
    /\ step = "gate"
    /\ prog_colors # None /\ prog_typo # None /\ prog_logo # None
    /\ ~prog_logo.found
    /\ prog_colors.background = Str(<<"#ffffff">>)

---------------------------------------------------------------------------
(* Vector and raster candidates of the tiers *)

\* the brand anchors hold a vector that the loop of tier 1 does not skip as repeated
Tier1EligibleVector ==
    \E i \in 1..Len(extractor.brand_anchors) :
        \E j \in 1..Len(extractor.brand_anchors[i].svgs) :
            ~is_repeated_svg(extractor.svg_fingerprint_usage,
                             extractor.brand_anchors[i].svgs[j].geometry.fingerprint)

\* the candidate list of tier 4 holds a vector
Tier4EligibleVector ==
    /\ extractor.soup # None
    /\ LET cands == DomCandidates(extractor.svg_fingerprint_usage, extractor.soup.anchors)
       IN  \E i \in 1..Len(cands) : cands[i].type = "svg"

\* C23 (as claimed): within tier 1 and within tier 4 a vector is preferred over a
\* raster image: whenever the tier was evaluated, produced a candidate and has at least
\* one eligible (non-repeated) vector, the candidate it produced is a vector.
C23_VectorPreferredWithinTier ==
    /\ (1 \in evaluated /\ Tier1EligibleVector /\ Candidate(1) # None =>
            Candidate(1).source = "brand_anchor_svg")
    /\ (4 \in evaluated /\ Tier4EligibleVector /\ Candidate(4) # None =>
            Candidate(4).source = "dom_fallback_svg")

\* the image records the fetcher reported, in the brand anchors and in the header
ReportedImages ==
    {extractor.header_images[i] : i \in 1..Len(extractor.header_images)}
    \cup UNION { {extractor.brand_anchors[i].imgs[j] : j \in 1..Len(extractor.brand_anchors[i].imgs)} :
                 i \in 1..Len(extractor.brand_anchors) }

\* extract() returned a raster image found by tier 1 or by tier 3
ReturnedRaster ==
    /\ ExtractDone
    /\ result.found
    /\ result.source \in {"brand_anchor_img", "header_image"}

\* C24 (as claimed): a raster image rendered less than 30 wide or less than 15 high is
\* never the logo that tier 1 or tier 3 returns, whatever bonuses apply to it.
C24_SmallRasterNeverReturned ==
    ReturnedRaster =>
        \A img \in ReportedImages :
            img.src = result.url.urljoin => ~(img.width < 30 \/ img.height < 15)

\* the tint the description gives for a winning vector: the text colour when there is
\* one, else the fill unless it is 'none', an rgb()/rgba() value written as hex
DescribedTint(colors) ==
    IF colors.color.k # "empty" THEN HexOrSelf(colors.color)
    ELSE IF colors.fill.k \notin {"empty", "none"} THEN HexOrSelf(colors.fill)
    ELSE None

\* C25 (as claimed): the winning vector of tier 1 and the winning vector of tier 2 get
\* their tint the same way: the text colour when present, else the fill unless it is
\* 'none', rgb()/rgba() converted to hex, null only when neither exists.
C25_TintResolvedAlike ==
    /\ (1 \in evaluated /\ Candidate(1) # None /\ Candidate(1).source = "brand_anchor_svg" =>
            Candidate(1).color = DescribedTint(Candidate(1).svg.colors))
    /\ (2 \in evaluated /\ Candidate(2) # None =>
            Candidate(2).color = DescribedTint(Candidate(2).svg.colors))

---------------------------------------------------------------------------
(* The fingerprint usage map *)

\* the fingerprints of the vectors the fetcher reported to the extractor
ReportedFingerprints ==
    {extractor.all_svgs[i].geometry.fingerprint : i \in 1..Len(extractor.all_svgs)}
    \cup UNION { {extractor.brand_anchors[i].svgs[j].geometry.fingerprint :
                      j \in 1..Len(extractor.brand_anchors[i].svgs)} :
                 i \in 1..Len(extractor.brand_anchors) }

\* how many <svg> elements of the page carry the fingerprint fp
ShapeOccurrences(fp) ==
    Count([i \in 1..Len(PageSvgs) |-> FetcherFingerprint(PageSvgs[i].paths)], fp)

\* C29 (as claimed): the usage map counts each vector shape once: a reported shape that
\* occurs exactly once on the page has usage 1 and is not excluded as repeated, also
\* when it is listed in a brand anchor, in the header vectors and in the parsed document.
C29_ShapeCountedOnce ==
    \A fp \in ReportedFingerprints \ {<<>>} :
        1 \in evaluated /\ ShapeOccurrences(fp) = 1 =>
            /\ UsageOf(extractor.svg_fingerprint_usage, fp) = 1
            /\ ~is_repeated_svg(extractor.svg_fingerprint_usage, fp)

---------------------------------------------------------------------------
(* The visual fallback *)

\* a tier before tier 5 was called and its gate accepted what it produced
EarlierTierReturned == \E t \in evaluated \cap (1..4) : Accepts(t)

\* the bitmap cannot be used: cv2 is missing, imdecode gives None, or a call raises
VisionFails == extractor.screenshot # None /\ ~extractor.screenshot.decodes

\* C28: the visual fallback is attempted only when there is a screenshot and no earlier
\* tier returned an accepted candidate; it is attempted at most once, the call being
\* over as soon as it was; a failure inside it gives the not-found descriptor.
C28_VisionFallbackOnceAndContained ==
    /\ (5 \in evaluated => extractor.screenshot # None /\ ~EarlierTierReturned)
    /\ (5 \in evaluated => pc = "done")
    /\ (EarlierTierReturned => pc = "done" /\ 5 \notin evaluated)
    /\ (ExtractDone /\ ~EarlierTierReturned /\ extractor.screenshot = None =>
            5 \notin evaluated /\ result = NotFound)
    /\ (5 \in evaluated /\ VisionFails => result = NotFound)

\* C28 witness: tier 2 produced a candidate its gate rejected, tier 5 was then called on
\* a bitmap that cannot be decoded and extract() returned the not-found descriptor
C28_Witness ==
    /\ ExtractDone
    /\ 5 \in evaluated
    /\ VisionFails
    /\ Tier2Rejected
    /\ result = NotFound

---------------------------------------------------------------------------
(* Background candidates and the two parsing paths *)

\* every colour literal of the CSS handed to the extractor, in text order
AllLiterals == Flatten([i \in 1..Len(css_contents) |-> BlockLiterals(css_contents[i])])

\* a literal in a background or background-color declaration whose selector names the
\* root, the body or a background container
IsPageBackgroundLiteral(l) ==
    /\ l.prop \in {"background", "background-color"}
    /\ SelectorHas(l.sel, {"body", "html", ".bg-", "main", ".wrapper", ".container", ":root"})
    /\ ~SelectorHas(l.sel, {"button", ".btn", "[type=submit]", ".cta", "submit",
                            ":hover", ":focus", ":active"})
PageBackgroundLiterals == SelectSeq(AllLiterals, IsPageBackgroundLiteral)

\* C26 (as claimed): in the structured path every literal colour of a background
\* declaration under a root, body or background-container selector, near-black,
\* near-white and grey included, is tallied as a background candidate, and the returned
\* background is then one of the declared colours: the white default is used only when
\* there is no such declaration.
C26_NeutralBackgroundsAreCandidates ==
    step = "returned_colors" =>
        /\ \A i \in 1..Len(PageBackgroundLiterals) :
               PageBackgroundLiterals[i].lit.hex \in TalliedIn("background")
        /\ (PageBackgroundLiterals # <<>> =>
               \E i \in 1..Len(PageBackgroundLiterals) :
                   color_result.background = Str(<<PageBackgroundLiterals[i].lit.hex>>))

\* how often the colour occurs as a literal in the CSS, and its count in all_colors
LiteralOccurrences(color) ==
    Cardinality({i \in 1..Len(AllLiterals) : AllLiterals[i].lit.hex = color})
AllColorsCount(color) ==
    LET hits == {i \in 1..Len(color_extractor.all_colors) :
                     color_extractor.all_colors[i].key = color}
    IN  IF hits = {} THEN 0 ELSE color_extractor.all_colors[CHOOSE i \in hits : TRUE].count

\* C27 (as claimed): the regex pass and the structured pass add up: each occurrence of
\* a hex, rgb()/rgba() or hsl()/hsla() literal in a declaration of a parsed style rule
\* is counted exactly twice in all_colors.
C27_EachLiteralCountedTwice ==
    step = "returned_colors" =>
        \A i \in 1..Len(AllLiterals) :
            AllColorsCount(AllLiterals[i].lit.hex) = 2 * LiteralOccurrences(AllLiterals[i].lit.hex)

\* the colours either parsing path recorded that are not neutral
RecordedNonNeutral ==
    {color_extractor.all_colors[i].key : i \in 1..Len(color_extractor.all_colors)}
    \ {c \in {color_extractor.all_colors[i].key : i \in 1..Len(color_extractor.all_colors)} :
           is_neutral(c)}

\* C30: after extract() on any list of CSS blocks the primary colour is non-null exactly
\* when some non-neutral colour was recorded, in any role or in none, and the primary
\* colour is never a neutral one.
C30_PrimaryIffNonNeutralRecorded ==
    step = "returned_colors" =>
        /\ (color_result.primary # None <=> RecordedNonNeutral # {})
        /\ (color_result.primary # None =>
                /\ color_result.primary.str[1] \in RecordedNonNeutral
                /\ ~is_neutral(color_result.primary.str[1]))

\* C30 witness: no colour was tallied in the primary role, a neutral and a non-neutral
\* colour were recorded, and the primary colour was taken from the recorded colours
C30_Witness ==
    /\ step = "returned_colors"
    /\ TalliedIn("primary") = {}
    /\ TalliedIn("neutrals") # {}
    /\ RecordedNonNeutral # {}
    /\ color_result.primary # None

---------------------------------------------------------------------------
(* Properties of the typography result *)

\* a heading or body font value that names a font: a non-empty text
NamesFont(v) == IsStr(v) /\ v.str # <<>>

\* the name is on the system-font or on the icon-font deny-list, case-insensitively
\* (none of the names used here is a var(...) placeholder)
DenyListed(v) == FontLower(v.str[1]) \in SYSTEM_FONTS \cup ICON_FONTS

\* C21 (as claimed): the heading and body font of TypographyExtractor.extract() and of
\* the merged typography descriptor are never a deny-listed name, whichever path chose
\* them: context tallies, combined tally, linked font names or the hint.
C21_FontsNeverDenyListed ==
    /\ (prog_typo # None =>
            /\ (NamesFont(prog_typo.heading_font) => ~DenyListed(prog_typo.heading_font))
            /\ (NamesFont(prog_typo.body_font) => ~DenyListed(prog_typo.body_font)))
    /\ (final_typo # None =>
            /\ (NamesFont(final_typo.heading_font) => ~DenyListed(final_typo.heading_font))
            /\ (NamesFont(final_typo.body_font) => ~DenyListed(final_typo.body_font)))

\* the tallies TypographyExtractor holds after parsing the CSS of the request
FontTallies == ParseAllFonts(TypographyExtractor(request.google_fonts), request.css)

TallyNames(tally) == {tally[i].key : i \in 1..Len(tally)}
TallyCount(tally, name) ==
    (CHOOSE e \in {tally[i] : i \in 1..Len(tally)} : e.key = name).count
\* the names no other name of the tally occurs more often than
MostFrequent(tally) ==
    {n \in TallyNames(tally) :
        \A m \in TallyNames(tally) : TallyCount(tally, m) <= TallyCount(tally, n)}
\* the names that come second: one other name is at least as frequent, no third is more
SecondMostFrequent(tally) ==
    {b \in TallyNames(tally) :
        \E a \in MostFrequent(tally) \ {b} :
            \A c \in TallyNames(tally) \ {a, b} : TallyCount(tally, c) <= TallyCount(tally, b)}

\* C22: the heading font is a most frequent name of the heading context and the body
\* font a most frequent name of the body context; a missing one is filled from the two
\* most frequent distinct names of the combined tally (the single name serving both
\* when there is only one), and when still missing from the linked font names, the
\* first to the heading and the next to the body.  font-family: "Inter", Arial,
\* sans-serif on h1 gives heading 'Inter', 'Arial' and 'sans-serif' being discarded.
C22_HeadingAndBodySelection ==
    prog_typo # None =>
        LET H == FontTallies.heading_fonts
            B == FontTallies.body_fonts
            A == FontTallies.all_fonts
            G == prog_typo.google_fonts
            heading == prog_typo.heading_font
            body == prog_typo.body_font
        IN  /\ (H # <<>> => NamesFont(heading) /\ heading.str[1] \in MostFrequent(H))
            /\ (B # <<>> => NamesFont(body) /\ body.str[1] \in MostFrequent(B))
            /\ (H = <<>> /\ A # <<>> => NamesFont(heading) /\ heading.str[1] \in MostFrequent(A))
            /\ (B = <<>> /\ A # <<>> =>
                    /\ NamesFont(body)
                    /\ IF Cardinality(TallyNames(A)) = 1
                       THEN body.str[1] \in TallyNames(A)
                       ELSE body.str[1] \in SecondMostFrequent(A))
            /\ (H = <<>> /\ A = <<>> /\ G # <<>> => heading = Str(<<G[1]>>))
            /\ (B = <<>> /\ A = <<>> /\ Len(G) > 1 => body = Str(<<G[2]>>))
            /\ (request.css = <<<<InterOnH1>>>> =>
                    /\ heading = Str(<<"Inter">>)
                    /\ TallyNames(A) = {"Inter"}
                    /\ TallyNames(prog_typo.all_fonts) = {"Inter"})

\* C22 witness: the example declaration alone, no body-context name, so that 'Inter'
\* found on h1 serves as body font too although two font names are linked
C22_Witness ==
    /\ prog_typo # None
    /\ request.css = <<<<InterOnH1>>>>
    /\ request.google_fonts # {}
    /\ FontTallies.body_fonts = <<>>
    /\ prog_typo.heading_font = Str(<<"Inter">>)
    /\ prog_typo.body_font = Str(<<"Inter">>)

====
